---- MODULE Spec2Model ----
(***************************************************************************)
(* Model of DataQualityEngine (backend/engine/data_quality_engine.py).     *)
(*                                                                         *)
(* Text is a sequence of one-character strings, so that lower(), strip(),  *)
(* split(), re.sub() and the similarity scorers are computed, not assumed. *)
(* A null cell (NaN) is the one-element sequence <<"NaN">>; the booleans   *)
(* pandas stores in the is_duplicate column are <<"True">> / <<"False">>.  *)
(* A float that the code only compares and rounds is kept as the exact     *)
(* fraction [num, den]; a FixEvent's confidence is round(confidence, 2)    *)
(* in hundredths (0.85 is 85), the quality score is in hundredths too.     *)
(***************************************************************************)
EXTENDS Integers, Sequences, FiniteSets, TLC

(* ----------------------------- text ------------------------------------ *)

NaN == <<"NaN">>
PyTrue == <<"True">>
PyFalse == <<"False">>

UpperChars == <<"A","B","C","D","E","F","G","H","I","J","K","L","M",
                "N","O","P","Q","R","S","T","U","V","W","X","Y","Z">>
LowerChars == <<"a","b","c","d","e","f","g","h","i","j","k","l","m",
                "n","o","p","q","r","s","t","u","v","w","x","y","z">>
DigitChars == <<"0","1","2","3","4","5","6","7","8","9">>

\* The characters of the model's texts in code-point order (sorted() order).
CodeOrder == <<" ", "!", "#", "'", "(", ")", "+", "-", ".", "/", ":">>
             \o <<"0","1","2","3","4","5","6","7","8","9">>
             \o <<"@">> \o UpperChars \o <<"[", "]", "_">> \o LowerChars

Range(s) == {s[i] : i \in 1..Len(s)}

IsUpper(c) == c \in Range(UpperChars)
IsLower(c) == c \in Range(LowerChars)
IsAlpha(c) == IsUpper(c) \/ IsLower(c)
IsDigit(c) == c \in Range(DigitChars)
IsAlnum(c) == IsAlpha(c) \/ IsDigit(c)
IsSpace(c) == c = " "

CharCode(c) == CHOOSE i \in 1..Len(CodeOrder) : CodeOrder[i] = c

LowerChar(c) == IF IsUpper(c)
                THEN LowerChars[CHOOSE i \in 1..26 : UpperChars[i] = c]
                ELSE c
UpperChar(c) == IF IsLower(c)
                THEN UpperChars[CHOOSE i \in 1..26 : LowerChars[i] = c]
                ELSE c

\* str.lower()
StrLower(s) == [i \in 1..Len(s) |-> LowerChar(s[i])]

\* str.strip(): drop leading and trailing whitespace
RECURSIVE LStrip(_)
LStrip(s) == IF s # <<>> /\ IsSpace(Head(s)) THEN LStrip(Tail(s)) ELSE s
RECURSIVE RStrip(_)
RStrip(s) == IF s # <<>> /\ IsSpace(s[Len(s)])
             THEN RStrip(SubSeq(s, 1, Len(s) - 1)) ELSE s
StrStrip(s) == RStrip(LStrip(s))

\* re.sub(r"\D", "", s): keep the digits
DigitsOf(s) == SelectSeq(s, IsDigit)

\* str.count(c)
CountChar(s, c) == Cardinality({i \in 1..Len(s) : s[i] = c})

\* c in s, for one character
HasChar(s, c) == \E i \in 1..Len(s) : s[i] = c

\* sub in s (substring test)
Contains(s, sub) == \E i \in 0..(Len(s) - Len(sub)) :
                        SubSeq(s, i + 1, i + Len(sub)) = sub

\* s.startswith(p)
StartsWith(s, p) == Len(s) >= Len(p) /\ SubSeq(s, 1, Len(p)) = p

\* str.isdigit(): non-empty and all digits
IsDigitStr(s) == s # <<>> /\ \A i \in 1..Len(s) : IsDigit(s[i])

\* str.split(): split on runs of whitespace, no empty tokens
RECURSIVE SplitWs(_, _)
SplitWs(s, cur) ==
    IF s = <<>> THEN (IF cur = <<>> THEN <<>> ELSE <<cur>>)
    ELSE IF IsSpace(Head(s))
         THEN (IF cur = <<>> THEN <<>> ELSE <<cur>>) \o SplitWs(Tail(s), <<>>)
         ELSE SplitWs(Tail(s), Append(cur, Head(s)))
StrSplit(s) == SplitWs(s, <<>>)

\* s.split(sep) for a one-character separator: empty fields are kept
RECURSIVE SplitOn(_, _, _)
SplitOn(s, sep, cur) ==
    IF s = <<>> THEN <<cur>>
    ELSE IF Head(s) = sep THEN <<cur>> \o SplitOn(Tail(s), sep, <<>>)
         ELSE SplitOn(Tail(s), sep, Append(cur, Head(s)))
StrSplitOn(s, sep) == SplitOn(s, sep, <<>>)

\* sep.join(parts)
RECURSIVE StrJoin(_, _)
StrJoin(parts, sep) ==
    IF parts = <<>> THEN <<>>
    ELSE IF Len(parts) = 1 THEN parts[1]
         ELSE parts[1] \o sep \o StrJoin(Tail(parts), sep)

\* a < b for str (code-point lexicographic order)
RECURSIVE StrLess(_, _)
StrLess(a, b) ==
    IF b = <<>> THEN FALSE
    ELSE IF a = <<>> THEN TRUE
    ELSE IF Head(a) = Head(b) THEN StrLess(Tail(a), Tail(b))
         ELSE CharCode(Head(a)) < CharCode(Head(b))

\* sorted(tokens)
RECURSIVE InsertSorted(_, _)
InsertSorted(t, sorted) ==
    IF sorted = <<>> THEN <<t>>
    ELSE IF StrLess(t, Head(sorted)) THEN <<t>> \o sorted
         ELSE <<Head(sorted)>> \o InsertSorted(t, Tail(sorted))
RECURSIVE SortTokens(_)
SortTokens(ts) == IF ts = <<>> THEN <<>>
                  ELSE InsertSorted(Head(ts), SortTokens(Tail(ts)))

(* --------------------------- similarity -------------------------------- *)

\* One row of the longest-common-subsequence table: prev is the row for the
\* characters of a read so far, indexed 1..Len(b)+1 (column 0 is index 1).
RECURSIVE LcsRow(_, _, _, _)
LcsRow(c, b, prev, acc) ==
    IF Len(acc) = Len(b) + 1 THEN acc
    ELSE LET j == Len(acc)
             v == IF b[j] = c THEN prev[j] + 1
                  ELSE IF prev[j + 1] >= acc[j] THEN prev[j + 1] ELSE acc[j]
         IN LcsRow(c, b, prev, Append(acc, v))
RECURSIVE LcsRows(_, _, _)
LcsRows(a, b, prev) ==
    IF a = <<>> THEN prev[Len(b) + 1]
    ELSE LcsRows(Tail(a), b, LcsRow(Head(a), b, prev, <<0>>))
LcsLen(a, b) == LcsRows(a, b, [j \in 1..(Len(b) + 1) |-> 0])

\* rapidfuzz fuzz.ratio: 100 * (1 - indel_distance / (len1 + len2)), that is
\* 200 * LCS / (len1 + len2); 100 for two empty strings. Kept as a fraction.
FuzzRatio(a, b) ==
    IF Len(a) + Len(b) = 0 THEN [num |-> 100, den |-> 1]
    ELSE [num |-> 200 * LcsLen(a, b), den |-> Len(a) + Len(b)]

\* rapidfuzz fuzz.token_sort_ratio (no preprocessing): ratio of the
\* whitespace-split, sorted, space-joined texts
SortedTokens(s) == StrJoin(SortTokens(StrSplit(s)), <<" ">>)
TokenSortRatio(a, b) == FuzzRatio(SortedTokens(a), SortedTokens(b))

\* comparisons of a fraction with a number
FracGE(f, n) == f.num >= n * f.den
FracGT(f, g) == f.num * g.den > g.num * f.den

\* round(x) to the nearest integer, ties to even, x = num/den >= 0
RoundHalfEven(num, den) ==
    LET q == num \div den
        r == num % den
    IN IF 2 * r < den THEN q
       ELSE IF 2 * r > den THEN q + 1
       ELSE IF q % 2 = 0 THEN q ELSE q + 1

(* --------------------------- the table --------------------------------- *)

\* None, as extract_domain returns it: null to pandas, falsy to Python
PyNone == <<"None">>

\* pd.isna(value)
IsNa(v) == v = NaN \/ v = PyNone

\* str(value), of a cell
PyStr(v) == IF v = NaN THEN <<"n","a","n">>
            ELSE IF v = PyNone THEN <<"N","o","n","e">>
            ELSE IF v = PyTrue THEN <<"T","r","u","e">>
            ELSE IF v = PyFalse THEN <<"F","a","l","s","e">>
            ELSE v

\* the column names the engine probes
COL_email == <<"e","m","a","i","l">>
COL_people_email == <<"p","e","o","p","l","e","_","e","m","a","i","l">>
COL_work_email == <<"w","o","r","k","_","e","m","a","i","l">>
COL_business_email == <<"b","u","s","i","n","e","s","s","_","e","m","a","i","l">>
COL_phone == <<"p","h","o","n","e">>
COL_people_phone == <<"p","e","o","p","l","e","_","p","h","o","n","e">>
COL_work_phone == <<"w","o","r","k","_","p","h","o","n","e">>
COL_mobile == <<"m","o","b","i","l","e">>
COL_person_name == <<"p","e","r","s","o","n","_","n","a","m","e">>
COL_first_name == <<"f","i","r","s","t","_","n","a","m","e">>
COL_last_name == <<"l","a","s","t","_","n","a","m","e">>
COL_middle_name == <<"m","i","d","d","l","e","_","n","a","m","e">>
COL_company_name == <<"c","o","m","p","a","n","y","_","n","a","m","e">>
COL_company == <<"c","o","m","p","a","n","y">>
COL_organization == <<"o","r","g","a","n","i","z","a","t","i","o","n">>
COL_org_name == <<"o","r","g","_","n","a","m","e">>
COL_domain == <<"d","o","m","a","i","n">>
COL_website == <<"w","e","b","s","i","t","e">>
COL_domain_url == <<"d","o","m","a","i","n","_","u","r","l">>
COL_is_duplicate == <<"i","s","_","d","u","p","l","i","c","a","t","e">>
COL_country == <<"c","o","u","n","t","r","y">>
COL_industry == <<"i","n","d","u","s","t","r","y">>
COL_job_title == <<"j","o","b","_","t","i","t","l","e">>
COL_jobtitle == <<"j","o","b","t","i","t","l","e">>
COL_id == <<"i","d">>
COL_email_score == <<"e","m","a","i","l","_","s","c","o","r","e">>
COL_people_email_score == <<"p","e","o","p","l","e","_","e","m","a","i","l","_","s","c","o","r","e">>

\* name in df.columns / col in row
HasCol(cols, name) == \E i \in 1..Len(cols) : cols[i] = name
ColIndex(cols, name) == CHOOSE i \in 1..Len(cols) : cols[i] = name

\* row.get(name, default)
RowGet(cols, row, name, default) ==
    IF HasCol(cols, name) THEN row[ColIndex(cols, name)] ELSE default

\* df[name] = values: overwrite the column if it exists, else append it
SetColumn(d, name, values) ==
    IF HasCol(d.columns, name)
    THEN [columns |-> d.columns,
          rows |-> [r \in 1..Len(d.rows) |->
                      [d.rows[r] EXCEPT ![ColIndex(d.columns, name)] = values[r]]]]
    ELSE [columns |-> Append(d.columns, name),
          rows |-> [r \in 1..Len(d.rows) |-> Append(d.rows[r], values[r])]]

\* df.drop(columns=[name], errors="ignore")
DropColumn(d, name) ==
    LET keep == SelectSeq([i \in 1..Len(d.columns) |-> i],
                          LAMBDA i : d.columns[i] # name)
    IN [columns |-> [k \in 1..Len(keep) |-> d.columns[keep[k]]],
        rows |-> [r \in 1..Len(d.rows) |->
                    [k \in 1..Len(keep) |-> d.rows[r][keep[k]]]]]

\* _normalize_columns: c.strip().lower() for every column name
NormalizeColumns(d) ==
    [columns |-> [i \in 1..Len(d.columns) |-> StrLower(StrStrip(d.columns[i]))],
     rows |-> d.rows]

\* df.replace({"": np.nan, " ": np.nan}): whole-cell matches only
ReplaceBlanks(d) ==
    [columns |-> d.columns,
     rows |-> [r \in 1..Len(d.rows) |->
                 [c \in 1..Len(d.rows[r]) |->
                     IF d.rows[r][c] = <<>> \/ d.rows[r][c] = <<" ">>
                     THEN NaN ELSE d.rows[r][c]]]]

\* re.sub(r"https?://", "", text): every occurrence is removed
RECURSIVE RemoveScheme(_)
RemoveScheme(s) ==
    IF s = <<>> THEN <<>>
    ELSE IF StartsWith(s, <<"h","t","t","p",":","/","/">>)
         THEN RemoveScheme(SubSeq(s, 8, Len(s)))
    ELSE IF StartsWith(s, <<"h","t","t","p","s",":","/","/">>)
         THEN RemoveScheme(SubSeq(s, 9, Len(s)))
    ELSE <<Head(s)>> \o RemoveScheme(Tail(s))

\* extract_domain
ExtractDomain(value) ==
    IF IsNa(value) THEN PyNone
    ELSE LET text == StrSplitOn(RemoveScheme(StrStrip(StrLower(PyStr(value)))),
                                "/")[1]
         IN IF text = <<>> THEN PyNone
            ELSE IF ~HasChar(text, ".") THEN PyNone
            ELSE text

\* _derive_domain
DeriveDomain(d) ==
    IF ~HasCol(d.columns, COL_domain) /\ ~HasCol(d.columns, COL_website) THEN d
    ELSE IF HasCol(d.columns, COL_domain) /\ HasCol(d.columns, COL_website)
    THEN SetColumn(d, COL_domain,
            [r \in 1..Len(d.rows) |->
                LET a == ExtractDomain(RowGet(d.columns, d.rows[r], COL_domain, NaN))
                IN IF a # PyNone THEN a
                   ELSE ExtractDomain(RowGet(d.columns, d.rows[r], COL_website, NaN))])
    ELSE IF HasCol(d.columns, COL_domain)
    THEN SetColumn(d, COL_domain,
            [r \in 1..Len(d.rows) |->
                ExtractDomain(RowGet(d.columns, d.rows[r], COL_domain, NaN))])
    ELSE SetColumn(d, COL_domain,
            [r \in 1..Len(d.rows) |->
                ExtractDomain(RowGet(d.columns, d.rows[r], COL_website, NaN))])

(* ------------------------- _detect_duplicates -------------------------- *)

\* norm_text without the lower-casing
norm_textMutNoLower(val) == IF IsNa(val) THEN <<>> ELSE StrStrip(PyStr(val))

\* norm_text (lines 288-291)
norm_text(val) == IF IsNa(val) THEN <<>> ELSE StrStrip(StrLower(PyStr(val)))

\* norm_phone
norm_phone(val) == IF IsNa(val) THEN <<>> ELSE DigitsOf(PyStr(val))

\* company_fallback: the first column whose lower-cased name contains
\* "company", or None
company_fallback(cols) ==
    LET hits == SelectSeq(cols, LAMBDA c : Contains(StrLower(c), COL_company))
    IN IF hits = <<>> THEN PyNone ELSE hits[1]

\* the first non-empty normalised value among the candidate columns present
RECURSIVE FirstNonEmptyText(_, _, _)
FirstNonEmptyText(cols, row, cands) ==
    IF cands = <<>> THEN <<>>
    ELSE LET col == Head(cands)
             val == IF col # PyNone /\ HasCol(cols, col)
                    THEN norm_text(RowGet(cols, row, col, <<>>)) ELSE <<>>
         IN IF val # <<>> THEN val ELSE FirstNonEmptyText(cols, row, Tail(cands))

RECURSIVE FirstNonEmptyPhone(_, _, _)
FirstNonEmptyPhone(cols, row, cands) ==
    IF cands = <<>> THEN <<>>
    ELSE LET col == Head(cands)
             val == IF HasCol(cols, col)
                    THEN norm_phone(RowGet(cols, row, col, <<>>)) ELSE <<>>
         IN IF val # <<>> THEN val ELSE FirstNonEmptyPhone(cols, row, Tail(cands))

get_company(cols, row) ==
    FirstNonEmptyText(cols, row,
        <<COL_company_name, COL_company, COL_organization, COL_org_name,
          company_fallback(cols)>>)

get_person(cols, row) ==
    LET pn == IF HasCol(cols, COL_person_name)
              THEN norm_text(RowGet(cols, row, COL_person_name, <<>>)) ELSE <<>>
        first == norm_text(RowGet(cols, row, COL_first_name, <<>>))
        last == norm_text(RowGet(cols, row, COL_last_name, <<>>))
        middle == norm_text(RowGet(cols, row, COL_middle_name, <<>>))
        parts == SelectSeq(<<first, middle, last>>, LAMBDA p : p # <<>>)
    IN IF pn # <<>> THEN pn ELSE StrStrip(StrJoin(parts, <<" ">>))

get_email(cols, row) ==
    FirstNonEmptyText(cols, row,
        <<COL_email, COL_people_email, COL_work_email, COL_business_email>>)

get_phone(cols, row) ==
    FirstNonEmptyPhone(cols, row,
        <<COL_phone, COL_people_phone, COL_work_phone, COL_mobile>>)

\* the fuzzy loops over person_company_seen (lines 349-353 and 361-366)
CompanyLoopHit(company, seen) ==
    \E k \in 1..Len(seen) : FracGE(TokenSortRatio(company, seen[k][2]), 90)

\* the PERSON-mode loop with the person comparison left out
PersonCompanyLoopHitMutCompanyOnly(person, company, seen) ==
    \E k \in 1..Len(seen) : FracGE(TokenSortRatio(company, seen[k][2]), 90)

PersonCompanyLoopHit(person, company, seen) ==
    \E k \in 1..Len(seen) :
        /\ FracGE(TokenSortRatio(company, seen[k][2]), 90)
        /\ FracGE(TokenSortRatio(person, seen[k][1]), 90)

\* COMPANY mode going by the email and the company only
IsDupRowMutCompanyNoPhone(mode, email, phone, person, company, st) ==
    IF mode = "company"
    THEN IF email # <<>> /\ email \in st.email_seen THEN TRUE
         ELSE IF company # <<>>
              THEN CompanyLoopHit(company, st.person_company_seen)
         ELSE FALSE
    ELSE IF email # <<>> /\ email \in st.email_seen THEN TRUE
         ELSE IF phone # <<>> /\ phone \in st.phone_seen THEN TRUE
         ELSE IF person # <<>> /\ company # <<>>
              THEN PersonCompanyLoopHit(person, company, st.person_company_seen)
         ELSE FALSE

\* is_dup for one row, given what earlier rows left behind (lines 340-367)
IsDupRow(mode, email, phone, person, company, st) ==
    IF mode = "company"
    THEN IF email # <<>> /\ email \in st.email_seen THEN TRUE
         ELSE IF phone # <<>> /\ phone \in st.phone_seen THEN TRUE
         ELSE IF company # <<>>
              THEN CompanyLoopHit(company, st.person_company_seen)
         ELSE FALSE
    ELSE IF email # <<>> /\ email \in st.email_seen THEN TRUE
         ELSE IF phone # <<>> /\ phone \in st.phone_seen THEN TRUE
         ELSE IF person # <<>> /\ company # <<>>
              THEN PersonCompanyLoopHit(person, company, st.person_company_seen)
         ELSE FALSE

\* a non-duplicate row leaves its keys behind (lines 372-381), here without
\* the COMPANY-mode anchor of a row that has no person
RememberRowMutNoCompanyAnchor(mode, email, phone, person, company, st) ==
    [email_seen |-> IF email # <<>> THEN st.email_seen \cup {email}
                    ELSE st.email_seen,
     phone_seen |-> IF phone # <<>> THEN st.phone_seen \cup {phone}
                    ELSE st.phone_seen,
     person_company_seen |->
         IF person # <<>> /\ company # <<>>
         THEN Append(st.person_company_seen, <<person, company>>)
         ELSE st.person_company_seen,
     flags |-> Append(st.flags, FALSE),
     duplicate_count |-> st.duplicate_count]

\* a non-duplicate row leaves its keys behind (lines 371-381)
RememberRow(mode, email, phone, person, company, st) ==
    [email_seen |-> IF email # <<>> THEN st.email_seen \cup {email}
                    ELSE st.email_seen,
     phone_seen |-> IF phone # <<>> THEN st.phone_seen \cup {phone}
                    ELSE st.phone_seen,
     person_company_seen |->
         IF person # <<>> /\ company # <<>>
         THEN Append(st.person_company_seen, <<person, company>>)
         ELSE IF mode = "company" /\ company # <<>>
              THEN Append(st.person_company_seen, <<(<<>>), company>>)
              ELSE st.person_company_seen,
     flags |-> Append(st.flags, FALSE),
     duplicate_count |-> st.duplicate_count]

\* the state update of one iteration that lets a duplicate leave its keys
\* behind as well
DedupUpdateMutAnchorsAll(mode, email, phone, person, company, is_dup, st) ==
    IF is_dup
    THEN [RememberRow(mode, email, phone, person, company, st) EXCEPT
             !.duplicate_count = st.duplicate_count + 1,
             !.flags = Append(st.flags, TRUE)]
    ELSE RememberRow(mode, email, phone, person, company, st)

\* the state update of one iteration that flags the row but forgets to
\* count it
DedupUpdateMutNoCount(mode, email, phone, person, company, is_dup, st) ==
    IF is_dup
    THEN [st EXCEPT !.flags = Append(@, TRUE)]
    ELSE RememberRow(mode, email, phone, person, company, st)

\* the state update at the end of one iteration (lines 369-381)
DedupUpdate(mode, email, phone, person, company, is_dup, st) ==
    IF is_dup
    THEN [st EXCEPT !.duplicate_count = @ + 1, !.flags = Append(@, TRUE)]
    ELSE RememberRow(mode, email, phone, person, company, st)

\* one iteration of the loop over df.iterrows() (lines 334-381)
DedupStep(mode, cols, row, st) ==
    LET company == get_company(cols, row)
        person == get_person(cols, row)
        email == get_email(cols, row)
        phone == get_phone(cols, row)
        is_dup == IsDupRow(mode, email, phone, person, company, st)
    IN DedupUpdate(mode, email, phone, person, company, is_dup, st)

\* the locals of _detect_duplicates as it starts (lines 279-283)
DedupInit == [email_seen |-> {}, phone_seen |-> {}, person_company_seen |-> <<>>,
              flags |-> <<>>, duplicate_count |-> 0]

(* ------------------------- the fix ledger ------------------------------ *)

\* a text as a TLA+ string, for the notes
RECURSIVE Str(_)
Str(s) == IF s = <<>> THEN "" ELSE Head(s) \o Str(Tail(s))

\* a confidence given in hundredths, as a fraction
Conf(n) == [num |-> n, den |-> 100]

\* self.accept_threshold = 0.80, self.suggest_threshold = 0.60 (hundredths)
accept_threshold == 80
suggest_threshold == 60

\* every ONLINE result counted for manual review, whatever its confidence
BelowAcceptMutAlways(conf) == TRUE

\* x < self.accept_threshold, for a confidence x

BelowAccept(conf) == conf.num * 100 < accept_threshold * conf.den

\* _make_fix: confidence is round(confidence, 2), kept in hundredths
_make_fix(row_index, field, original, suggested, confidence, mode, note) ==
    [row_index |-> row_index, field |-> field, original |-> original,
     suggested |-> suggested,
     confidence |-> RoundHalfEven(100 * confidence.num, confidence.den),
     processing_mode |-> mode, note |-> note]

\* What one block of the row loop adds to the ledger, the lists and the
\* counters
NoEffect == [fixes |-> <<>>, invalid_count |-> 0, standardized_count |-> 0,
             offline_fixes |-> 0, online_fixes |-> 0, manual_review |-> 0,
             missing_records |-> <<>>, invalid_records |-> <<>>]

InvalidRecord(idx, field, value, issue) ==
    [row_index |-> idx, field |-> field, value |-> value, issue |-> issue]
MissingRecord(idx, field) ==
    [row_index |-> idx, field |-> field, issue |-> "Missing"]

(* --------------------- categorical standardizer ------------------------ *)

\* str.title(): a letter after a letter is lower-cased, any other letter
\* upper-cased
RECURSIVE TitleFrom(_, _)
TitleFrom(s, prevAlpha) ==
    IF s = <<>> THEN <<>>
    ELSE <<IF prevAlpha THEN LowerChar(Head(s)) ELSE UpperChar(Head(s))>>
         \o TitleFrom(Tail(s), IsAlpha(Head(s)))
StrTitle(s) == TitleFrom(s, FALSE)

\* the scorers the engine hands to process.extractOne
ScoreWith(scorer, a, b) ==
    IF scorer = "token_sort_ratio" THEN TokenSortRatio(a, b) ELSE FuzzRatio(a, b)

\* process.extractOne(value, choices, scorer=scorer): the first choice with
\* the greatest score, as [match, score]
RECURSIVE ExtractOneFrom(_, _, _, _)
ExtractOneFrom(value, choices, scorer, best) ==
    IF choices = <<>> THEN best
    ELSE LET sc == ScoreWith(scorer, value, Head(choices))
         IN ExtractOneFrom(value, Tail(choices), scorer,
                IF FracGT(sc, best.score)
                THEN [match |-> Head(choices), score |-> sc] ELSE best)
ExtractOne(value, choices, scorer) ==
    ExtractOneFrom(value, Tail(choices), scorer,
        [match |-> Head(choices), score |-> ScoreWith(scorer, value, Head(choices))])

\* _online_lookup: [suggestion, confidence], suggestion None for ""
_online_lookup(field, value) ==
    IF value = <<>> THEN [suggestion |-> PyNone, confidence |-> Conf(0)]
    ELSE [suggestion |-> StrTitle(StrStrip(value)), confidence |-> Conf(82)]

\* _best_match: [match, score] with score = extractOne's score / 100.0
_best_matchMutNoScale(value, reference_set) ==
    IF reference_set = <<>> THEN [match |-> PyNone, score |-> Conf(0)]
    ELSE LET Scaled(r) == [match |-> r.match, score |-> r.score]
         IN Scaled(ExtractOne(value, reference_set, "token_sort_ratio"))

_best_match(value, reference_set) ==
    IF reference_set = <<>> THEN [match |-> PyNone, score |-> Conf(0)]
    ELSE LET Scaled(r) ==
                 [match |-> r.match,
                  score |-> [num |-> r.score.num, den |-> 100 * r.score.den]]
         IN Scaled(ExtractOne(value, reference_set, "token_sort_ratio"))

\* a match below accept_threshold escalated instead of suggested
_standardize_valueMutAcceptOnly(value, reference_set, field) ==
    IF value = <<>> \/ StrLower(value) = <<"n","a","n">>
    THEN [value |-> value, conf |-> Conf(0), mode |-> "OFFLINE", note |-> "missing"]
    ELSE
    LET Decide(value_clean, best, online) ==
           IF value_clean \in Range(reference_set)
           THEN [value |-> value_clean, conf |-> Conf(95), mode |-> "OFFLINE",
                 note |-> "exact reference match"]
           ELSE IF best.match # PyNone /\ best.match # <<>>
                   /\ best.score.num * 100 >= accept_threshold * best.score.den
           THEN [value |-> best.match, conf |-> best.score, mode |-> "OFFLINE",
                 note |-> "standardized " \o Str(field)]
           ELSE IF online.suggestion # PyNone /\ online.suggestion # <<>>
           THEN [value |-> online.suggestion, conf |-> online.confidence,
                 mode |-> "ONLINE", note |-> "online escalation for " \o Str(field)]
           ELSE [value |-> value_clean, conf |-> Conf(0), mode |-> "ONLINE",
                 note |-> "Needs Manual Review"]
        Cleaned(value_clean) ==
            Decide(value_clean, _best_match(value_clean, reference_set),
                   _online_lookup(field, value_clean))
    IN Cleaned(StrStrip(value))

\* _standardize_value: [value, conf, mode, note]
_standardize_value(value, reference_set, field) ==
    IF value = <<>> \/ StrLower(value) = <<"n","a","n">>
    THEN [value |-> value, conf |-> Conf(0), mode |-> "OFFLINE", note |-> "missing"]
    ELSE
    LET Decide(value_clean, best, online) ==
           IF value_clean \in Range(reference_set)
           THEN [value |-> value_clean, conf |-> Conf(95), mode |-> "OFFLINE",
                 note |-> "exact reference match"]
           ELSE IF best.match # PyNone /\ best.match # <<>>
                   /\ best.score.num * 100 >= suggest_threshold * best.score.den
           THEN IF best.score.num * 100 >= accept_threshold * best.score.den
                THEN [value |-> best.match, conf |-> best.score, mode |-> "OFFLINE",
                      note |-> "standardized " \o Str(field)]
                ELSE [value |-> best.match, conf |-> best.score, mode |-> "OFFLINE",
                      note |-> "suggested " \o Str(field)]
           ELSE IF online.suggestion # PyNone /\ online.suggestion # <<>>
           THEN [value |-> online.suggestion, conf |-> online.confidence,
                 mode |-> "ONLINE", note |-> "online escalation for " \o Str(field)]
           ELSE [value |-> value_clean, conf |-> Conf(0), mode |-> "ONLINE",
                 note |-> "Needs Manual Review"]
        Cleaned(value_clean) ==
            Decide(value_clean, _best_match(value_clean, reference_set),
                   _online_lookup(field, value_clean))
    IN Cleaned(StrStrip(value))

\* the body of "for field in [country, industry]" (lines 80-104)
CategoricalBlock(refs, cols, idx, row, field) ==
    IF ~HasCol(cols, field) THEN NoEffect
    ELSE
    LET ref_set == IF field = COL_country THEN refs.countries ELSE refs.industries
        cell == RowGet(cols, row, field, <<>>)
        Effect(r) ==
            IF r.value # cell
            THEN [NoEffect EXCEPT
                    !.standardized_count = 1,
                    !.fixes = <<_make_fix(idx, field, cell, r.value, r.conf, r.mode,
                                          r.note)>>,
                    !.offline_fixes = IF r.mode = "OFFLINE" THEN 1 ELSE 0,
                    !.online_fixes = IF r.mode = "ONLINE" THEN 1 ELSE 0,
                    !.manual_review =
                        IF r.mode = "ONLINE" /\ BelowAccept(r.conf) THEN 1 ELSE 0]
            ELSE IF IsNa(cell) THEN [NoEffect EXCEPT !.invalid_count = 1]
            ELSE NoEffect
    IN Effect(_standardize_value(PyStr(cell), ref_set, field))

(* ----------------------------- job title ------------------------------- *)

\* job_title_map is a sequence of <<key, role>> pairs in dict order
MapKeys(m) == [i \in 1..Len(m) |-> m[i][1]]
MapHas(m, key) == \E i \in 1..Len(m) : m[i][1] = key
MapGet(m, key) == m[CHOOSE i \in 1..Len(m) : m[i][1] = key][2]

\* the accepting bar lowered to the diagnostic one
_validate_job_titleMutAcceptAt70(job_title_map, job_title) ==
    IF job_title = <<>> \/ StrStrip(job_title) = <<>>
    THEN [is_valid |-> FALSE, mapped |-> PyNone, conf |-> Conf(0),
          note |-> "Job title is empty"]
    ELSE
    LET Mapped(job_title_clean, r) ==
           IF MapHas(job_title_map, job_title_clean)
           THEN IF MapGet(job_title_map, job_title_clean) # job_title
                THEN [is_valid |-> TRUE, mapped |-> MapGet(job_title_map, job_title_clean),
                      conf |-> Conf(90), note |-> "Standardized to known job title"]
                ELSE [is_valid |-> TRUE, mapped |-> job_title, conf |-> Conf(100),
                      note |-> "Valid job title"]
           ELSE IF job_title_map # <<>> /\ FracGE(r.score, 70)
           THEN [is_valid |-> TRUE, mapped |-> MapGet(job_title_map, r.match),
                 conf |-> Conf(80), note |-> "Similar to '" \o Str(r.match) \o "'"]
           ELSE IF job_title_map # <<>> /\ FracGE(r.score, 70)
           THEN [is_valid |-> FALSE, mapped |-> PyNone, conf |-> Conf(0),
                 note |-> "Unrecognized job title (closest: '" \o Str(r.match) \o "')"]
           ELSE [is_valid |-> FALSE, mapped |-> PyNone, conf |-> Conf(0),
                 note |-> "Unrecognized job title"]
        Cleaned(job_title_clean) ==
            Mapped(job_title_clean,
                   ExtractOne(job_title_clean, MapKeys(job_title_map),
                              "token_sort_ratio"))
    IN Cleaned(StrLower(StrStrip(job_title)))

\* _validate_job_title: [is_valid, mapped, conf, note]
_validate_job_title(job_title_map, job_title) ==
    IF job_title = <<>> \/ StrStrip(job_title) = <<>>
    THEN [is_valid |-> FALSE, mapped |-> PyNone, conf |-> Conf(0),
          note |-> "Job title is empty"]
    ELSE
    LET Mapped(job_title_clean, r) ==
           IF MapHas(job_title_map, job_title_clean)
           THEN IF MapGet(job_title_map, job_title_clean) # job_title
                THEN [is_valid |-> TRUE, mapped |-> MapGet(job_title_map, job_title_clean),
                      conf |-> Conf(90), note |-> "Standardized to known job title"]
                ELSE [is_valid |-> TRUE, mapped |-> job_title, conf |-> Conf(100),
                      note |-> "Valid job title"]
           ELSE IF job_title_map # <<>> /\ FracGE(r.score, 85)
           THEN [is_valid |-> TRUE, mapped |-> MapGet(job_title_map, r.match),
                 conf |-> Conf(80), note |-> "Similar to '" \o Str(r.match) \o "'"]
           ELSE IF job_title_map # <<>> /\ FracGE(r.score, 70)
           THEN [is_valid |-> FALSE, mapped |-> PyNone, conf |-> Conf(0),
                 note |-> "Unrecognized job title (closest: '" \o Str(r.match) \o "')"]
           ELSE [is_valid |-> FALSE, mapped |-> PyNone, conf |-> Conf(0),
                 note |-> "Unrecognized job title"]
        Cleaned(job_title_clean) ==
            Mapped(job_title_clean,
                   ExtractOne(job_title_clean, MapKeys(job_title_map),
                              "token_sort_ratio"))
    IN Cleaned(StrLower(StrStrip(job_title)))

NoMatchFound == <<"(","N","o"," ","m","a","t","c","h"," ","f","o","u","n","d",")">>

\* the job title block (lines 106-121); NoMatchFound stands for the text
\* "(No match found - manual review needed)"
JobTitleBlock(refs, cols, idx, row) ==
    IF ~(HasCol(cols, COL_job_title) \/ HasCol(cols, COL_jobtitle)) THEN NoEffect
    ELSE
    LET job_field == IF HasCol(cols, COL_job_title) THEN COL_job_title ELSE COL_jobtitle
        job_val == RowGet(cols, row, job_field, <<>>)
        Effect(r, truthy, suggestion) ==
           IF IsNa(job_val) THEN NoEffect
           ELSE IF ~r.is_valid
           THEN [NoEffect EXCEPT
                   !.invalid_count = 1,
                   !.invalid_records = <<InvalidRecord(idx, job_field, job_val, r.note)>>,
                   !.fixes = <<_make_fix(idx, job_field, job_val, suggestion, Conf(0),
                                         "MANUAL", r.note)>>,
                   !.manual_review = 1]
           ELSE IF truthy /\ r.mapped # job_val
           THEN [NoEffect EXCEPT
                   !.standardized_count = 1,
                   !.fixes = <<_make_fix(idx, job_field, job_val, r.mapped, r.conf,
                                         "OFFLINE", r.note)>>,
                   !.offline_fixes = 1]
           ELSE NoEffect
        Validated(r) ==
            Effect(r, r.mapped # PyNone /\ r.mapped # <<>>,
                   IF r.mapped # PyNone /\ r.mapped # <<>> THEN r.mapped
                   ELSE NoMatchFound)
    IN Validated(_validate_job_title(refs.job_title_map, PyStr(job_val)))

(* ------------------------------- email --------------------------------- *)

\* the characters the regular expressions of the email checks allow
LocalCharOk(c) == IsAlnum(c) \/ c \in {".", "_", "+", "-"}
DomainCharOk(c) == IsAlnum(c) \/ c \in {".", "-"}

\* ', '.join(set(invalid_chars)): the distinct offending characters (listed
\* in code-point order; Python leaves the order of a set open)
BadLocalChars(s) ==
    LET bad == SelectSeq(CodeOrder, LAMBDA c : HasChar(s, c) /\ ~LocalCharOk(c))
    IN StrJoin([i \in 1..Len(bad) |-> <<bad[i]>>], <<",", " ">>)
BadDomainChars(s) ==
    LET bad == SelectSeq(CodeOrder, LAMBDA c : HasChar(s, c) /\ ~DomainCharOk(c))
    IN StrJoin([i \in 1..Len(bad) |-> <<bad[i]>>], <<",", " ">>)

\* email_validator.validate_email(x, check_deliverability=False), the rules
\* that texts over CodeOrder can break: one "@"; a dot-atom local part; a
\* dotted domain of letter/digit/hyphen labels, no label starting or ending
\* with a hyphen, ending in a letter. normalized keeps the local part and
\* lower-cases the domain.
AtextChar(c) == IsAlnum(c) \/ c \in {"!", "#", "'", "+", "-", "/", "_"}
LdhChar(c) == IsAlnum(c) \/ c = "-"
NoStrayDots(s) ==
    /\ s # <<>>
    /\ s[1] # "." /\ s[Len(s)] # "."
    /\ \A i \in 1..(Len(s) - 1) : ~(s[i] = "." /\ s[i + 1] = ".")
LabelOk(l) == l # <<>> /\ l[1] # "-" /\ l[Len(l)] # "-"
validate_email(x) ==
    LET parts == StrSplitOn(x, "@")
        local == parts[1]
        domain == IF Len(parts) = 2 THEN parts[2] ELSE <<>>
        ok == /\ Len(parts) = 2
              /\ NoStrayDots(local)
              /\ \A i \in 1..Len(local) : AtextChar(local[i]) \/ local[i] = "."
              /\ NoStrayDots(domain)
              /\ \A i \in 1..Len(domain) : LdhChar(domain[i]) \/ domain[i] = "."
              /\ HasChar(domain, ".")
              /\ \A l \in Range(StrSplitOn(domain, ".")) : LabelOk(l)
              /\ IsAlpha(domain[Len(domain)])
    IN [ok |-> ok, local_part |-> local, domain |-> StrLower(domain),
        normalized |-> local \o <<"@">> \o StrLower(domain)]

\* _construct_email_from_name: the address, or None
_construct_email_from_name(cols, row) ==
    LET person_name == PyStr(RowGet(cols, row, COL_person_name, <<>>))
        domain == RowGet(cols, row, COL_domain, PyNone)
        parts == StrSplit(StrLower(StrStrip(person_name)))
        local == IF Len(parts) > 1 THEN <<parts[1][1]>> \o parts[Len(parts)]
                 ELSE parts[1]
    IN IF person_name = <<>> \/ domain = PyNone \/ domain = <<>> THEN PyNone
       ELSE IF parts = <<>> THEN PyNone
       ELSE local \o <<"@">> \o PyStr(domain)

\* the nearest accepted domain, however far
_closest_domainMutNoCutoff(email_domains, domain) ==
    IF email_domains = <<>> THEN PyNone
    ELSE ExtractOne(domain, email_domains, "ratio").match

\* _closest_domain: the accepted domain nearest by fuzz.ratio, if >= 70
_closest_domain(email_domains, domain) ==
    IF email_domains = <<>> THEN PyNone
    ELSE LET r == ExtractOne(domain, email_domains, "ratio")
         IN IF FracGE(r.score, 70) THEN r.match ELSE PyNone

Manual(email, note) ==
    [value |-> email, conf |-> Conf(0), mode |-> "MANUAL", note |-> note]

\* _validate_email lines 438-499, for the stripped non-empty email
ValidateStripped(email, cols, row, email_domains) ==
    LET Checked(n, local_part, domain_part, info, derived, suggestion) ==
           IF n = 0 THEN Manual(email, "Invalid: missing @ symbol")
           ELSE IF n # 1
           THEN Manual(email, "Invalid: contains " \o ToString(n)
                              \o " @ symbols (should be 1)")
           ELSE IF local_part = <<>>
           THEN Manual(email, "Invalid: empty local part before @")
           ELSE IF \E i \in 1..Len(local_part) : ~LocalCharOk(local_part[i])
           THEN Manual(email, "Invalid: local part contains invalid characters ("
                              \o Str(BadLocalChars(local_part)) \o ")")
           ELSE IF domain_part = <<>>
           THEN Manual(email, "Invalid: empty domain after @")
           ELSE IF ~HasChar(domain_part, ".")
           THEN Manual(email,
                  "Invalid: domain missing . (e.g., should be gmail.com not gmailcom)")
           ELSE IF \E i \in 1..Len(domain_part) : ~DomainCharOk(domain_part[i])
           THEN Manual(email, "Invalid: domain contains invalid characters ("
                              \o Str(BadDomainChars(domain_part)) \o ")")
           ELSE IF HasChar(email, " ")
           THEN Manual(email, "Invalid: contains spaces")
           ELSE IF \E l \in Range(StrSplitOn(domain_part, ".")) : l = <<>>
           THEN Manual(email, "Invalid: domain has empty part (e.g., example..com)")
           ELSE IF info.ok
           THEN IF email_domains # <<>> /\ info.domain \notin Range(email_domains)
                   /\ suggestion # PyNone /\ suggestion # <<>>
                THEN [value |-> info.local_part \o <<"@">> \o suggestion,
                      conf |-> Conf(80), mode |-> "OFFLINE",
                      note |-> "domain standardized"]
                ELSE [value |-> info.normalized, conf |-> Conf(90),
                      mode |-> "OFFLINE", note |-> "valid"]
           ELSE IF derived # PyNone
           THEN [value |-> derived, conf |-> Conf(70), mode |-> "OFFLINE",
                 note |-> "reconstructed from name"]
           ELSE Manual(email, "Invalid email format: (the validator's message)")
        Validated(parts, info) ==
            Checked(CountChar(email, "@"), parts[1], parts[2], info,
                    _construct_email_from_name(cols, row),
                    _closest_domain(email_domains, info.domain))
    IN Validated(StrSplitOn(email, "@"), validate_email(email))

\* _validate_email: [value, conf, mode, note]
_validate_email(email, cols, row, email_domains) ==
    IF email = <<>> \/ StrStrip(email) = <<>>
    THEN IF _construct_email_from_name(cols, row) # PyNone
         THEN [value |-> _construct_email_from_name(cols, row), conf |-> Conf(65),
               mode |-> "OFFLINE", note |-> "constructed from name"]
         ELSE Manual(<<>>, "Email missing")
    ELSE ValidateStripped(StrStrip(email), cols, row, email_domains)

\* what follows a second "@" dropped: parts[0] + "@" + parts[1]
_suggest_email_fixMutSecondPart(raw) ==
    LET e0 == StrStrip(raw)
        p0 == StrSplitOn(e0, "@")
        e1 == IF CountChar(e0, "@") > 1 THEN p0[1] \o <<"@">> \o p0[2] ELSE e0
        p1 == StrSplitOn(e1, "@")
        e2 == IF HasChar(e1, "@")
              THEN SelectSeq(p1[1], LocalCharOk) \o <<"@">>
                   \o SelectSeq(StrJoin(Tail(p1), <<"@">>), DomainCharOk)
              ELSE e1
        p2 == StrSplitOn(e2, "@")
        d2 == StrJoin(Tail(p2), <<"@">>)
    IN IF HasChar(e2, "@") /\ ~HasChar(d2, ".") /\ d2 # <<>>
       THEN p2[1] \o <<"@">> \o d2 \o <<".","c","o","m">>
       ELSE e2

\* _suggest_email_fix
_suggest_email_fix(raw) ==
    LET e0 == StrStrip(raw)
        p0 == StrSplitOn(e0, "@")
        e1 == IF CountChar(e0, "@") > 1
              THEN p0[1] \o <<"@">> \o StrJoin(Tail(p0), <<>>) ELSE e0
        p1 == StrSplitOn(e1, "@")
        e2 == IF HasChar(e1, "@")
              THEN SelectSeq(p1[1], LocalCharOk) \o <<"@">>
                   \o SelectSeq(StrJoin(Tail(p1), <<"@">>), DomainCharOk)
              ELSE e1
        p2 == StrSplitOn(e2, "@")
        d2 == StrJoin(Tail(p2), <<"@">>)
    IN IF HasChar(e2, "@") /\ ~HasChar(d2, ".") /\ d2 # <<>>
       THEN p2[1] \o <<"@">> \o d2 \o <<".","c","o","m">>
       ELSE e2

\* an email no repair mends sent ONLINE without a manual review
EmailBlockMutNoReview(refs, cols, idx, row) ==
    IF ~(HasCol(cols, COL_email) \/ HasCol(cols, COL_people_email)) THEN NoEffect
    ELSE
    LET email_field == IF HasCol(cols, COL_email) THEN COL_email ELSE COL_people_email
        email_val == RowGet(cols, row, email_field, <<>>)
        Effect(r, suggestion, info) ==
           IF IsNa(email_val)
           THEN [NoEffect EXCEPT !.missing_records = <<MissingRecord(idx, email_field)>>]
           ELSE IF r.conf.num = 0 /\ r.mode = "MANUAL"
           THEN IF info.ok
                THEN [NoEffect EXCEPT
                        !.invalid_count = 1,
                        !.invalid_records =
                            <<InvalidRecord(idx, email_field, email_val, r.note)>>,
                        !.fixes = <<_make_fix(idx, email_field, email_val,
                                      info.normalized, Conf(85), "OFFLINE",
                                      "Auto-fixed: " \o r.note)>>,
                        !.offline_fixes = 1]
                ELSE [NoEffect EXCEPT
                        !.invalid_count = 1,
                        !.invalid_records =
                            <<InvalidRecord(idx, email_field, email_val, r.note)>>,
                        !.fixes = <<_make_fix(idx, email_field, email_val,
                                      suggestion, Conf(0), "ONLINE",
                                      "Needs verification: " \o r.note)>>,
                        !.online_fixes = 1]
           ELSE IF r.value # <<>> /\ r.value # email_val
           THEN [NoEffect EXCEPT
                   !.standardized_count = 1,
                   !.fixes = <<_make_fix(idx, email_field, email_val, r.value, r.conf,
                                         r.mode, r.note)>>,
                   !.offline_fixes = IF r.mode = "OFFLINE" THEN 1 ELSE 0,
                   !.online_fixes = IF r.mode = "ONLINE" THEN 1 ELSE 0,
                   !.manual_review =
                       IF r.mode = "ONLINE" /\ BelowAccept(r.conf) THEN 1 ELSE 0]
           ELSE NoEffect
        Suggested(suggestion) ==
            Effect(_validate_email(PyStr(email_val), cols, row, refs.email_domains),
                   suggestion, validate_email(suggestion))
    IN Suggested(_suggest_email_fix(PyStr(email_val)))

\* the email block (lines 123-155)
EmailBlock(refs, cols, idx, row) ==
    IF ~(HasCol(cols, COL_email) \/ HasCol(cols, COL_people_email)) THEN NoEffect
    ELSE
    LET email_field == IF HasCol(cols, COL_email) THEN COL_email ELSE COL_people_email
        email_val == RowGet(cols, row, email_field, <<>>)
        Effect(r, suggestion, info) ==
           IF IsNa(email_val)
           THEN [NoEffect EXCEPT !.missing_records = <<MissingRecord(idx, email_field)>>]
           ELSE IF r.conf.num = 0 /\ r.mode = "MANUAL"
           THEN IF info.ok
                THEN [NoEffect EXCEPT
                        !.invalid_count = 1,
                        !.invalid_records =
                            <<InvalidRecord(idx, email_field, email_val, r.note)>>,
                        !.fixes = <<_make_fix(idx, email_field, email_val,
                                      info.normalized, Conf(85), "OFFLINE",
                                      "Auto-fixed: " \o r.note)>>,
                        !.offline_fixes = 1]
                ELSE [NoEffect EXCEPT
                        !.invalid_count = 1,
                        !.invalid_records =
                            <<InvalidRecord(idx, email_field, email_val, r.note)>>,
                        !.fixes = <<_make_fix(idx, email_field, email_val,
                                      suggestion, Conf(0), "ONLINE",
                                      "Needs verification: " \o r.note)>>,
                        !.online_fixes = 1,
                        !.manual_review = 1]
           ELSE IF r.value # <<>> /\ r.value # email_val
           THEN [NoEffect EXCEPT
                   !.standardized_count = 1,
                   !.fixes = <<_make_fix(idx, email_field, email_val, r.value, r.conf,
                                         r.mode, r.note)>>,
                   !.offline_fixes = IF r.mode = "OFFLINE" THEN 1 ELSE 0,
                   !.online_fixes = IF r.mode = "ONLINE" THEN 1 ELSE 0,
                   !.manual_review =
                       IF r.mode = "ONLINE" /\ BelowAccept(r.conf) THEN 1 ELSE 0]
           ELSE NoEffect
        Suggested(suggestion) ==
            Effect(_validate_email(PyStr(email_val), cols, row, refs.email_domains),
                   suggestion, validate_email(suggestion))
    IN Suggested(_suggest_email_fix(PyStr(email_val)))

(* ------------------------------- phone --------------------------------- *)

\* a country code 1 put before the digits
_validate_phone_strictMutPlusOne(phone) ==
    LET digits == DigitsOf(phone)
        formatted == <<"+", "1">> \o digits
    IN IF phone = <<>>
       THEN [is_valid |-> FALSE, cleaned |-> <<>>, conf |-> Conf(0),
             note |-> "Phone number missing"]
       ELSE IF Len(digits) < 10
       THEN [is_valid |-> FALSE, cleaned |-> phone, conf |-> Conf(0),
             note |-> "Invalid: only " \o ToString(Len(digits)) \o " digits (need 10+)"]
       ELSE IF Len(digits) > 15
       THEN [is_valid |-> FALSE, cleaned |-> phone, conf |-> Conf(0),
             note |-> "Invalid: too many digits (" \o ToString(Len(digits)) \o ")"]
       ELSE IF formatted # phone
       THEN [is_valid |-> TRUE, cleaned |-> formatted, conf |-> Conf(85),
             note |-> "Standardized format"]
       ELSE [is_valid |-> TRUE, cleaned |-> phone, conf |-> Conf(100),
             note |-> "Valid"]

\* the 7-15 digit window in place of the strict one
_validate_phone_strictMutLoose(phone) ==
    LET digits == DigitsOf(phone)
        formatted == <<"+">> \o digits
    IN IF phone = <<>>
       THEN [is_valid |-> FALSE, cleaned |-> <<>>, conf |-> Conf(0),
             note |-> "Phone number missing"]
       ELSE IF Len(digits) < 7
       THEN [is_valid |-> FALSE, cleaned |-> phone, conf |-> Conf(0),
             note |-> "Invalid: only " \o ToString(Len(digits)) \o " digits (need 10+)"]
       ELSE IF Len(digits) > 15
       THEN [is_valid |-> FALSE, cleaned |-> phone, conf |-> Conf(0),
             note |-> "Invalid: too many digits (" \o ToString(Len(digits)) \o ")"]
       ELSE IF formatted # phone
       THEN [is_valid |-> TRUE, cleaned |-> formatted, conf |-> Conf(85),
             note |-> "Standardized format"]
       ELSE [is_valid |-> TRUE, cleaned |-> phone, conf |-> Conf(100),
             note |-> "Valid"]

\* _validate_phone_strict: [is_valid, cleaned, conf, note]
_validate_phone_strict(phone) ==
    LET digits == DigitsOf(phone)
        formatted == <<"+">> \o digits
    IN IF phone = <<>>
       THEN [is_valid |-> FALSE, cleaned |-> <<>>, conf |-> Conf(0),
             note |-> "Phone number missing"]
       ELSE IF Len(digits) < 10
       THEN [is_valid |-> FALSE, cleaned |-> phone, conf |-> Conf(0),
             note |-> "Invalid: only " \o ToString(Len(digits)) \o " digits (need 10+)"]
       ELSE IF Len(digits) > 15
       THEN [is_valid |-> FALSE, cleaned |-> phone, conf |-> Conf(0),
             note |-> "Invalid: too many digits (" \o ToString(Len(digits)) \o ")"]
       ELSE IF formatted # phone
       THEN [is_valid |-> TRUE, cleaned |-> formatted, conf |-> Conf(85),
             note |-> "Standardized format"]
       ELSE [is_valid |-> TRUE, cleaned |-> phone, conf |-> Conf(100),
             note |-> "Valid"]

\* the phone block (lines 157-174)
PhoneBlock(cols, idx, row) ==
    IF ~(HasCol(cols, COL_phone) \/ HasCol(cols, COL_people_phone)) THEN NoEffect
    ELSE
    LET phone_field == IF HasCol(cols, COL_phone) THEN COL_phone ELSE COL_people_phone
        phone_val == RowGet(cols, row, phone_field, <<>>)
        r == _validate_phone_strict(PyStr(phone_val))
    IN IF IsNa(phone_val)
       THEN [NoEffect EXCEPT
               !.invalid_count = 1,
               !.missing_records = <<MissingRecord(idx, phone_field)>>]
       ELSE IF ~r.is_valid
       THEN [NoEffect EXCEPT
               !.invalid_count = 1,
               !.invalid_records = <<InvalidRecord(idx, phone_field, phone_val, r.note)>>,
               !.fixes = <<_make_fix(idx, phone_field, phone_val, r.cleaned, Conf(0),
                                     "MANUAL", r.note)>>,
               !.manual_review = 1]
       ELSE IF r.cleaned # phone_val
       THEN [NoEffect EXCEPT
               !.standardized_count = 1,
               !.fixes = <<_make_fix(idx, phone_field, phone_val, r.cleaned, r.conf,
                                     "OFFLINE", r.note)>>,
               !.offline_fixes = 1]
       ELSE NoEffect

(* ------------------------------- names --------------------------------- *)

\* [a-zA-Z\s\-\']
NameCharOk(c) == IsAlpha(c) \/ IsSpace(c) \/ c = "-" \/ c = "'"

BadNameChars(s) ==
    LET bad == SelectSeq(CodeOrder, LAMBDA c : HasChar(s, c) /\ ~NameCharOk(c))
    IN StrJoin([i \in 1..Len(bad) |-> <<bad[i]>>], <<",", " ">>)

\* _validate_name: [is_valid, note]
_validate_name(name) ==
    IF name = <<>> THEN [is_valid |-> TRUE, note |-> "Valid"]
    ELSE IF \E i \in 1..Len(name) : IsDigit(name[i])
    THEN [is_valid |-> FALSE, note |-> "Invalid: contains numbers"]
    ELSE IF \E i \in 1..Len(name) : ~NameCharOk(name[i])
    THEN [is_valid |-> FALSE,
          note |-> "Invalid: contains special characters ("
                   \o Str(BadNameChars(name)) \o ")"]
    ELSE [is_valid |-> TRUE, note |-> "Valid"]

NumericNameMarker ==
    <<"[","N","a","m","e"," ","s","h","o","u","l","d"," ","c","o","n","t","a","i","n",
      " ","c","h","a","r","a","c","t","e","r","s",","," ","n","o","t"," ",
      "n","u","m","b","e","r","s","]">>

\* the digits stripped and nothing else
_suggest_name_fixMutDigitsOnly(name) ==
    LET cleaned == StrJoin(StrSplit(SelectSeq(name, LAMBDA c : ~IsDigit(c))), <<" ">>)
    IN IF IsDigitStr(StrStrip(name)) THEN NumericNameMarker
       ELSE IF StrStrip(cleaned) # <<>> THEN StrStrip(cleaned) ELSE name

\* _suggest_name_fix
_suggest_name_fix(name) ==
    LET cleaned == StrJoin(StrSplit(SelectSeq(SelectSeq(name, LAMBDA c : ~IsDigit(c)),
                                              NameCharOk)), <<" ">>)
    IN IF IsDigitStr(StrStrip(name)) THEN NumericNameMarker
       ELSE IF StrStrip(cleaned) # <<>> THEN StrStrip(cleaned) ELSE name

\* the body of "for name_field in name_fields" (lines 178-194)
NameBlock(cols, idx, row, name_field) ==
    IF ~HasCol(cols, name_field) THEN NoEffect
    ELSE
    LET name_val == RowGet(cols, row, name_field, <<>>)
        r == _validate_name(PyStr(name_val))
        suggestion == _suggest_name_fix(PyStr(name_val))
    IN IF IsNa(name_val) \/ r.is_valid THEN NoEffect
       ELSE IF suggestion # name_val /\ ~StartsWith(suggestion, <<"[">>)
       THEN [NoEffect EXCEPT
               !.invalid_count = 1,
               !.invalid_records = <<InvalidRecord(idx, name_field, name_val, r.note)>>,
               !.fixes = <<_make_fix(idx, name_field, name_val, suggestion, Conf(70),
                                     "OFFLINE", "Auto-fixed: " \o r.note)>>,
               !.offline_fixes = 1]
       ELSE [NoEffect EXCEPT
               !.invalid_count = 1,
               !.invalid_records = <<InvalidRecord(idx, name_field, name_val, r.note)>>,
               !.fixes = <<_make_fix(idx, name_field, name_val, suggestion, Conf(0),
                                     "MANUAL", r.note)>>,
               !.manual_review = 1]

(* -------------------------------- id ----------------------------------- *)

\* int(text) of an all-digit text
RECURSIVE IntOf(_)
IntOf(ds) == IF ds = <<>> THEN 0
             ELSE 10 * IntOf(SubSeq(ds, 1, Len(ds) - 1))
                  + (CHOOSE d \in 0..9 : DigitChars[d + 1] = ds[Len(ds)])

\* _validate_id: [is_valid, note]
_validate_id(id_val) ==
    IF id_val = <<>> \/ StrStrip(id_val) = <<>>
    THEN [is_valid |-> FALSE, note |-> "ID is empty"]
    ELSE IF ~IsDigitStr(StrStrip(id_val))
    THEN [is_valid |-> FALSE, note |-> "ID must contain only numbers"]
    ELSE IF IntOf(StrStrip(id_val)) <= 0
    THEN [is_valid |-> FALSE, note |-> "ID must be positive"]
    ELSE [is_valid |-> TRUE, note |-> "Valid"]

\* _suggest_id_fix: the digits of the text; with no digit int() raises and
\* the text itself comes back
_suggest_id_fix(id_val) ==
    IF DigitsOf(StrStrip(id_val)) # <<>> THEN DigitsOf(StrStrip(id_val)) ELSE id_val

\* the id block with its auto-fix left out of offline_fixes
IdBlockMutUncounted(cols, idx, row) ==
    IF ~HasCol(cols, COL_id) THEN NoEffect
    ELSE
    LET id_val == RowGet(cols, row, COL_id, <<>>)
        r == _validate_id(PyStr(id_val))
        suggestion == _suggest_id_fix(PyStr(id_val))
    IN IF IsNa(id_val) \/ r.is_valid THEN NoEffect
       ELSE IF suggestion # id_val /\ IsDigitStr(suggestion)
       THEN [NoEffect EXCEPT
               !.invalid_count = 1,
               !.invalid_records = <<InvalidRecord(idx, COL_id, id_val, r.note)>>,
               !.fixes = <<_make_fix(idx, COL_id, id_val, suggestion, Conf(80),
                                     "OFFLINE", "Auto-fixed: " \o r.note)>>,
               !.offline_fixes = 0]
       ELSE [NoEffect EXCEPT
               !.invalid_count = 1,
               !.invalid_records = <<InvalidRecord(idx, COL_id, id_val, r.note)>>,
               !.fixes = <<_make_fix(idx, COL_id, id_val, suggestion, Conf(0),
                                     "MANUAL", r.note)>>,
               !.manual_review = 1]

\* the id block (lines 196-210)
IdBlock(cols, idx, row) ==
    IF ~HasCol(cols, COL_id) THEN NoEffect
    ELSE
    LET id_val == RowGet(cols, row, COL_id, <<>>)
        r == _validate_id(PyStr(id_val))
        suggestion == _suggest_id_fix(PyStr(id_val))
    IN IF IsNa(id_val) \/ r.is_valid THEN NoEffect
       ELSE IF suggestion # id_val /\ IsDigitStr(suggestion)
       THEN [NoEffect EXCEPT
               !.invalid_count = 1,
               !.invalid_records = <<InvalidRecord(idx, COL_id, id_val, r.note)>>,
               !.fixes = <<_make_fix(idx, COL_id, id_val, suggestion, Conf(80),
                                     "OFFLINE", "Auto-fixed: " \o r.note)>>,
               !.offline_fixes = 1]
       ELSE [NoEffect EXCEPT
               !.invalid_count = 1,
               !.invalid_records = <<InvalidRecord(idx, COL_id, id_val, r.note)>>,
               !.fixes = <<_make_fix(idx, COL_id, id_val, suggestion, Conf(0),
                                     "MANUAL", r.note)>>,
               !.manual_review = 1]

(* ------------------------------- score --------------------------------- *)

\* float(text) for the decimal forms [sign] digits [. digits] (exponents,
\* "inf" and "nan" are not among the model's texts):
\* [ok, negative, int_part, frac_nonzero]
ParseFloat(text) ==
    LET t == StrStrip(text)
        signed == t # <<>> /\ (t[1] = "-" \/ t[1] = "+")
        body == IF signed THEN Tail(t) ELSE t
        parts == StrSplitOn(body, ".")
        ip == parts[1]
        fp == IF Len(parts) = 2 THEN parts[2] ELSE <<>>
        ok == /\ Len(parts) <= 2
              /\ ip \o fp # <<>>
              /\ \A i \in 1..Len(ip) : IsDigit(ip[i])
              /\ \A i \in 1..Len(fp) : IsDigit(fp[i])
    IN [ok |-> ok, negative |-> signed /\ t[1] = "-",
        int_part |-> IF ok THEN IntOf(ip) ELSE 0,
        frac_nonzero |-> ok /\ \E i \in 1..Len(fp) : fp[i] # "0"]

\* _validate_score: [is_valid, note]
_validate_score(score_val) ==
    LET Judge(f, zero) ==
           IF score_val = <<>> \/ StrStrip(score_val) = <<>>
           THEN [is_valid |-> FALSE, note |-> "Score is empty"]
           ELSE IF ~f.ok THEN [is_valid |-> FALSE, note |-> "Score must be numeric"]
           ELSE IF f.negative /\ ~zero
           THEN [is_valid |-> FALSE, note |-> "Score cannot be negative"]
           ELSE IF ~f.negative /\ (f.int_part > 100 \/ (f.int_part = 100 /\ f.frac_nonzero))
           THEN [is_valid |-> FALSE, note |-> "Score cannot exceed 100"]
           ELSE [is_valid |-> TRUE, note |-> "Valid"]
    IN LET Parsed(f) == Judge(f, f.int_part = 0 /\ ~f.frac_nonzero)
       IN Parsed(ParseFloat(score_val))

\* a rejected score put on record without a FixEvent
ScoreBlockMutNoFix(cols, idx, row, score_field) ==
    IF ~HasCol(cols, score_field) THEN NoEffect
    ELSE
    LET score_val == RowGet(cols, row, score_field, <<>>)
        Effect(r) ==
           IF IsNa(score_val) \/ r.is_valid THEN NoEffect
           ELSE [NoEffect EXCEPT
                   !.invalid_count = 1,
                   !.invalid_records = <<InvalidRecord(idx, score_field, score_val, r.note)>>,
                   !.manual_review = 1]
    IN Effect(_validate_score(PyStr(score_val)))

\* the body of "for score_field in score_fields" (lines 214-224)
ScoreBlock(cols, idx, row, score_field) ==
    IF ~HasCol(cols, score_field) THEN NoEffect
    ELSE
    LET score_val == RowGet(cols, row, score_field, <<>>)
        Effect(r) ==
           IF IsNa(score_val) \/ r.is_valid THEN NoEffect
           ELSE [NoEffect EXCEPT
                   !.invalid_count = 1,
                   !.invalid_records = <<InvalidRecord(idx, score_field, score_val, r.note)>>,
                   !.fixes = <<_make_fix(idx, score_field, score_val, <<>>, Conf(0),
                                         "MANUAL", r.note)>>,
                   !.manual_review = 1]
    IN Effect(_validate_score(PyStr(score_val)))

(* --------------------------- one row, report --------------------------- *)

RECURSIVE FlattenSeqs(_)
FlattenSeqs(ss) == IF ss = <<>> THEN <<>> ELSE Head(ss) \o FlattenSeqs(Tail(ss))

RECURSIVE SumSeq(_)
SumSeq(ns) == IF ns = <<>> THEN 0 ELSE Head(ns) + SumSeq(Tail(ns))

\* the effects of the blocks of one row, one after the other
ThenAll(es) ==
    [f \in DOMAIN NoEffect |->
        IF f \in {"fixes", "missing_records", "invalid_records"}
        THEN FlattenSeqs([k \in 1..Len(es) |-> es[k][f]])
        ELSE SumSeq([k \in 1..Len(es) |-> es[k][f]])]

\* the body of the row loop with the phone block ahead of the email block
RowEffectMutPhoneFirst(refs, cols, idx, row) ==
    ThenAll(<<CategoricalBlock(refs, cols, idx, row, COL_country),
              CategoricalBlock(refs, cols, idx, row, COL_industry),
              JobTitleBlock(refs, cols, idx, row),
              PhoneBlock(cols, idx, row),
              EmailBlock(refs, cols, idx, row),
              NameBlock(cols, idx, row, COL_first_name),
              NameBlock(cols, idx, row, COL_last_name),
              NameBlock(cols, idx, row, COL_middle_name),
              NameBlock(cols, idx, row, COL_person_name),
              IdBlock(cols, idx, row),
              ScoreBlock(cols, idx, row, COL_email_score),
              ScoreBlock(cols, idx, row, COL_people_email_score)>>)

\* the body of the loop over df.iterrows() (lines 78-224), block by block
RowEffect(refs, cols, idx, row) ==
    ThenAll(<<CategoricalBlock(refs, cols, idx, row, COL_country),
              CategoricalBlock(refs, cols, idx, row, COL_industry),
              JobTitleBlock(refs, cols, idx, row),
              EmailBlock(refs, cols, idx, row),
              PhoneBlock(cols, idx, row),
              NameBlock(cols, idx, row, COL_first_name),
              NameBlock(cols, idx, row, COL_last_name),
              NameBlock(cols, idx, row, COL_middle_name),
              NameBlock(cols, idx, row, COL_person_name),
              IdBlock(cols, idx, row),
              ScoreBlock(cols, idx, row, COL_email_score),
              ScoreBlock(cols, idx, row, COL_people_email_score)>>)

\* df.isnull().sum().sum()
TotalMissing(d) ==
    LET RowNulls(row) == Cardinality({c \in 1..Len(row) : IsNa(row[c])})
        Sum[r \in 0..Len(d.rows)] ==
            IF r = 0 THEN 0 ELSE Sum[r - 1] + RowNulls(d.rows[r])
    IN Sum[Len(d.rows)]

\* max(0, min(100, 100 - round((penalty / (total_cells + 1)) * 100, 2))),
\* in hundredths of a point
QualityScoreMutDupWeight(total_missing, invalid_count, duplicate_count, manual_review, total_cells) ==
    LET penalty == total_missing + invalid_count + duplicate_count + manual_review * 3
        raw == 10000 - RoundHalfEven(10000 * penalty, total_cells + 1)
    IN IF raw < 0 THEN 0 ELSE IF raw > 10000 THEN 10000 ELSE raw

QualityScoreMutRising(total_missing, invalid_count, duplicate_count, manual_review, total_cells) ==
    LET penalty == total_missing + invalid_count + duplicate_count * 2 + manual_review * 3
        raw == RoundHalfEven(10000 * penalty, total_cells + 1)
    IN IF raw < 0 THEN 0 ELSE IF raw > 10000 THEN 10000 ELSE raw

QualityScore(total_missing, invalid_count, duplicate_count, manual_review, total_cells) ==
    LET penalty == total_missing + invalid_count + duplicate_count * 2 + manual_review * 3
        raw == 10000 - RoundHalfEven(10000 * penalty, total_cells + 1)
    IN IF raw < 0 THEN 0 ELSE IF raw > 10000 THEN 10000 ELSE raw

\* _build_report
_build_report(d, invalid_count, standardized_count, duplicate_count, offline_fixes, online_fixes, manual_review) ==
    [missing_fields |-> TotalMissing(d),
     invalid_fields |-> invalid_count,
     duplicate_rows |-> duplicate_count,
     standardized_fields |-> standardized_count,
     offline_fixes |-> offline_fixes,
     online_fixes |-> online_fixes,
     manual_review |-> manual_review,
     overall_quality_score |->
         QualityScore(TotalMissing(d), invalid_count, duplicate_count, manual_review,
                      Len(d.rows) * Len(d.columns)),
     records |-> Len(d.rows),
     total_columns |-> Len(d.columns),
     all_columns |-> d.columns]

\* df.to_dict(orient="records"): one mapping per row, built from
\* itertuples(); a frame without columns yields no tuples at all
ToDictRecords(d) ==
    IF d.columns = <<>> THEN [columns |-> <<>>, rows |-> <<>>] ELSE d

(* ----------------------------- the inputs ------------------------------ *)

\* the most rows a table has
MaxRows == 2

\* The reference data the engine loads once in __init__ (lines 23-26): the
\* cache files are missing (every loader returns an empty collection) or
\* hold a small vocabulary. A set is kept in the order list(set) gives.
RefsEmpty == [countries |-> <<>>, industries |-> <<>>, job_title_map |-> <<>>,
              email_domains |-> <<>>]
RefsLoaded ==
    [countries |-> << <<"I","n","d","i","a">>, <<"O","m","a","n">> >>,
     industries |-> << <<"I","T">>, <<"R","e","t","a","i","l">> >>,
     job_title_map |-> << << <<"c","e","o">>, <<"C","E","O">> >>,
                          << <<"v","p"," ","s","a","l","e","s">>,
                             <<"V","P"," ","S","a","l","e","s">> >> >>,
     email_domains |-> << <<"x",".","i","o">>,
                          <<"g","m","a","i","l",".","c","o","m">> >>]
RefChoices == {RefsEmpty, RefsLoaded}

\* The tables: a header of raw column names and, per column, the cells a
\* row may hold there.
\* emails that differ by case and blanks only, or not at all
\*   "Email ": NaN, "a@x.io", " A@X.IO", "b@x.io"
ShapeEmails ==
    [header |-> << <<"E","m","a","i","l"," ">> >>,
     cells |-> << {NaN, <<"a","@","x",".","i","o">>, <<" ","A","@","X",".","I","O">>, <<"b","@","x",".","i","o">>} >>]

\* phones that differ by punctuation only, beside a good and a bad email
\*   "PHONE": NaN, "123-456-7890", "1234567890"
\*   "Email ": "a@x.io", "a b"
ShapePhones ==
    [header |-> << <<"P","H","O","N","E">>,
                   <<"E","m","a","i","l"," ">> >>,
     cells |-> << {NaN, <<"1","2","3","-","4","5","6","-","7","8","9","0">>, <<"1","2","3","4","5","6","7","8","9","0">>},
                  {<<"a","@","x",".","i","o">>, <<"a"," ","b">>} >>]

\* people at companies whose names differ by word order and a letter
\*   "Person_Name": NaN, "al bo", "cy"
\*   "Company": "acme corp", "Corp ACMEs"
ShapePeople ==
    [header |-> << <<"P","e","r","s","o","n","_","N","a","m","e">>,
                   <<"C","o","m","p","a","n","y">> >>,
     cells |-> << {NaN, <<"a","l"," ","b","o">>, <<"c","y">>},
                  {<<"a","c","m","e"," ","c","o","r","p">>, <<"C","o","r","p"," ","A","C","M","E","s">>} >>]

\* records without a company, and companies that are unlike
\*   "Person_Name": NaN, "al bo"
\*   "Organization": NaN, "acme corp", "zeta"
ShapeCompanies ==
    [header |-> << <<"P","e","r","s","o","n","_","N","a","m","e">>,
                   <<"O","r","g","a","n","i","z","a","t","i","o","n">> >>,
     cells |-> << {NaN, <<"a","l"," ","b","o">>},
                  {NaN, <<"a","c","m","e"," ","c","o","r","p">>, <<"z","e","t","a">>} >>]

\* countries: null, exact, near, nearish, unlike every known one, blank
\*   "Job_Title": "ceos"
\*   "Country": NaN, " India", "Indi", "Ina", "peru", "  "
\*   "industry": "Retial"
ShapeCountry ==
    [header |-> << <<"J","o","b","_","T","i","t","l","e">>,
                   <<"C","o","u","n","t","r","y">>,
                   <<"i","n","d","u","s","t","r","y">> >>,
     cells |-> << {<<"c","e","o","s">>},
                  {NaN, <<" ","I","n","d","i","a">>, <<"I","n","d","i">>, <<"I","n","a">>, <<"p","e","r","u">>, <<" "," ">>},
                  {<<"R","e","t","i","a","l">>} >>]

\* job titles
\*   "Job_Title": NaN, " ceo", "ceos", "ceo x", "cto"
ShapeJobs ==
    [header |-> << <<"J","o","b","_","T","i","t","l","e">> >>,
     cells |-> << {NaN, <<" ","c","e","o">>, <<"c","e","o","s">>,
                   <<"c","e","o"," ","x">>, <<"c","t","o">>} >>]

\* the fields of a person: name, phone, email, each one wrong
\*   "First_Name": "Al3"
\*   "people_phone": "123-456-7890", "12"
\*   "People_Email": "a@@x.io", "@@x.io", "a b", "a@gmial.com"
ShapeFields ==
    [header |-> << <<"F","i","r","s","t","_","N","a","m","e">>,
                   <<"p","e","o","p","l","e","_","p","h","o","n","e">>,
                   <<"P","e","o","p","l","e","_","E","m","a","i","l">> >>,
     cells |-> << {<<"A","l","3">>},
                  {<<"1","2","3","-","4","5","6","-","7","8","9","0">>, <<"1","2">>},
                  {<<"a","@","@","x",".","i","o">>, <<"@","@","x",".","i","o">>, <<"a"," ","b">>,
                   <<"a","@","g","m","i","a","l",".","c","o","m">>} >>]

\* scores, ids, names that need review, and a column named like the engine's marker
\*   "Email_Score": "50", "101"
\*   "ID": "7", "0", "-5", "-0", "x"
\*   " Is_Duplicate": "yes"
\*   "Person_Name": "42"
\*   "middle_name": "J."
ShapeMisc ==
    [header |-> << <<"E","m","a","i","l","_","S","c","o","r","e">>,
                   <<"I","D">>,
                   <<" ","I","s","_","D","u","p","l","i","c","a","t","e">>,
                   <<"P","e","r","s","o","n","_","N","a","m","e">>,
                   <<"m","i","d","d","l","e","_","n","a","m","e">> >>,
     cells |-> << {<<"5","0">>, <<"1","0","1">>},
                  {<<"7">>, <<"0">>, <<"-","5">>, <<"-","0">>, <<"x">>},
                  {<<"y","e","s">>},
                  {<<"4","2">>},
                  {<<"J",".">>} >>]

\* a website to derive the domain from, and an email only the validator rejects
\*   "Website": NaN, "HTTP://x.io/a"
\*   "Person_Name": "al bo"
\*   "Email": NaN, ".a@x.io"
ShapeSites ==
    [header |-> << <<"W","e","b","s","i","t","e">>,
                   <<"P","e","r","s","o","n","_","N","a","m","e">>,
                   <<"E","m","a","i","l">> >>,
     cells |-> << {NaN, <<"H","T","T","P",":","/","/","x",".","i","o","/","a">>},
                  {<<"a","l"," ","b","o">>},
                  {NaN, <<".","a","@","x",".","i","o">>} >>]

\* fields already in their canonical form, beside phones of 8 and 16 digits
\* and emails at a domain unlike every accepted one and at one letter swap
\* from an accepted one
\*   "Phone": "+1234567890", "12345678", "1234567890123456"
\*   "Last_Name": "O'Neil-Yu x"
\*   "Email": "b@zz.de", "a@gmial.com"
ShapeCanon ==
    [header |-> << <<"P","h","o","n","e">>,
                   <<"L","a","s","t","_","N","a","m","e">>,
                   <<"E","m","a","i","l">> >>,
     cells |-> << {<<"+","1","2","3","4","5","6","7","8","9","0">>,
                   <<"1","2","3","4","5","6","7","8">>,
                   <<"1","2","3","4","5","6","7","8","9","0","1","2","3","4","5","6">>},
                  {<<"O","'","N","e","i","l","-","Y","u"," ","x">>},
                  {<<"b","@","z","z",".","d","e">>,
                   <<"a","@","g","m","i","a","l",".","c","o","m">>} >>]

\* a table with no column has no row (read_csv and read_excel give none)
ShapeEmpty == [header |-> <<>>, cells |-> <<>>]

\* a domain column beside a website column, and names that cleaning
\* empties or mends
\*   "Domain": NaN, "HTTP://x.io/a", "x"
\*   "Website": "https://y.io/b"
\*   "Last_Name": "4.", "A.3"
ShapeDomains ==
    [header |-> << <<"D","o","m","a","i","n">>, <<"W","e","b","s","i","t","e">>,
                   <<"L","a","s","t","_","N","a","m","e">> >>,
     cells |-> << {NaN, <<"H","T","T","P",":","/","/","x",".","i","o","/","a">>, <<"x">>},
                  {<<"h","t","t","p","s",":","/","/","y",".","i","o","/","b">>},
                  {<<"4",".">>, <<"A",".","3">>} >> ]

Shapes == {ShapeEmails, ShapePhones, ShapePeople, ShapeCompanies, ShapeCountry,
           ShapeJobs, ShapeFields, ShapeMisc, ShapeSites, ShapeCanon, ShapeEmpty,
           ShapeDomains}

\* every row a shape admits: one cell per column
RECURSIVE RowsOf(_)
RowsOf(cells) ==
    IF cells = <<>> THEN {<<>>}
    ELSE {<<c>> \o rest : c \in Head(cells), rest \in RowsOf(Tail(cells))}

\* every table of a shape with at most MaxRows rows
TablesOf(shape) ==
    IF shape.header = <<>> THEN {[columns |-> <<>>, rows |-> <<>>]}
    ELSE {[columns |-> shape.header, rows |-> rs] :
            rs \in UNION {[1..n -> RowsOf(shape.cells)] : n \in 0..MaxRows}}

(* --------------------------- the state machine ------------------------- *)

VARIABLES
    refs,       \* the engine's reference data (self.countries, ...)
    input,      \* the table handed to _process_dataframe
    data_type,  \* "people" or "company"
    pc,         \* where _process_dataframe stands
    df,         \* the working DataFrame
    dd,         \* the locals of _detect_duplicates
    i,          \* rows the running loop has consumed
    loc,        \* fixes, counters and issue lists of _process_dataframe
    result,     \* what _process_dataframe returns
    last_cleaned_df,         \* the globals of main.py (lines 40-44)
    last_report,
    last_missing_records,
    last_invalid_records,
    last_duplicate_records,
    response,   \* the endpoint and status of the latest HTTP answer
    latest      \* history: the table and mode of the latest upload that was stored

\* the five stored values, and the state of the HTTP layer. An Optional
\* global is <<>> for None and <<x>> for the value x.
store == <<last_cleaned_df, last_report, last_missing_records, last_invalid_records,
           last_duplicate_records>>
http == <<store, response, latest>>

vars == <<refs, input, data_type, pc, df, dd, i, loc, result, http>>

\* main.py lines 40-44: nothing is stored, nothing was answered
HttpInit ==
    /\ last_cleaned_df = <<>>
    /\ last_report = <<>>
    /\ last_missing_records = <<>>
    /\ last_invalid_records = <<>>
    /\ last_duplicate_records = <<>>
    /\ response = [endpoint |-> "", status |-> 0]
    /\ latest = <<>>

\* lines 49-59
LocInit == [fixes |-> <<>>, invalid_count |-> 0, standardized_count |-> 0,
            offline_fixes |-> 0, online_fixes |-> 0, manual_review |-> 0,
            missing_records |-> <<>>, invalid_records |-> <<>>,
            duplicate_records |-> <<>>]

Init ==
    /\ refs \in RefChoices
    /\ \E shape \in Shapes : input \in TablesOf(shape)
    /\ data_type \in {"people", "company"}
    /\ pc = "start"
    /\ df = input
    /\ dd = DedupInit
    /\ i = 0
    /\ loc = LocInit
    /\ result = <<>>
    /\ HttpInit

\* lines 46-66: normalise the header and the blanks, derive the domain
Begin ==
    /\ pc = "start"
    /\ LET d == ReplaceBlanks(NormalizeColumns(input))
       IN df' = IF ~HasCol(d.columns, COL_domain)
                   /\ (HasCol(d.columns, COL_website)
                       \/ HasCol(d.columns, COL_domain_url))
                THEN DeriveDomain(d) ELSE d
    /\ pc' = "dedup"
    /\ UNCHANGED <<refs, input, data_type, dd, i, loc, result, http>>

\* one iteration of the loop of _detect_duplicates (lines 334-381)
DetectRow ==
    /\ pc = "dedup"
    /\ i < Len(df.rows)
    /\ dd' = DedupStep(data_type, df.columns, df.rows[i + 1], dd)
    /\ i' = i + 1
    /\ UNCHANGED <<refs, input, data_type, pc, df, loc, result, http>>

\* lines 69-75: the flags become the is_duplicate column and the
\* duplicate_records
FlagDuplicates ==
    /\ pc = "dedup"
    /\ i = Len(df.rows)
    /\ df' = SetColumn(df, COL_is_duplicate,
                [r \in 1..Len(dd.flags) |-> IF dd.flags[r] THEN PyTrue ELSE PyFalse])
    /\ loc' = [loc EXCEPT !.duplicate_records =
                  LET hits == SelectSeq([r \in 1..Len(dd.flags) |-> r],
                                        LAMBDA r : dd.flags[r])
                  IN [k \in 1..Len(hits) |-> [row_index |-> hits[k] - 1]]]
    /\ pc' = "rows"
    /\ i' = 0
    /\ UNCHANGED <<refs, input, data_type, dd, result, http>>

\* the row loop writing the first suggestion of the row into the table
ProcessRowMutAppliesFix ==
    /\ pc = "rows"
    /\ i < Len(df.rows)
    /\ LET e == RowEffect(refs, df.columns, i, df.rows[i + 1])
       IN /\ loc' = [loc EXCEPT
                       !.fixes = @ \o e.fixes,
                       !.invalid_count = @ + e.invalid_count,
                       !.standardized_count = @ + e.standardized_count,
                       !.offline_fixes = @ + e.offline_fixes,
                       !.online_fixes = @ + e.online_fixes,
                       !.manual_review = @ + e.manual_review,
                       !.missing_records = @ \o e.missing_records,
                       !.invalid_records = @ \o e.invalid_records]
          /\ df' = IF e.fixes = <<>> THEN df
                   ELSE [df EXCEPT !.rows[i + 1][ColIndex(df.columns, e.fixes[1].field)] =
                                       e.fixes[1].suggested]
    /\ i' = i + 1
    /\ UNCHANGED <<refs, input, data_type, pc, dd, result, http>>

\* one iteration of "for idx, row in df.iterrows()" (lines 78-224)
ProcessRow ==
    /\ pc = "rows"
    /\ i < Len(df.rows)
    /\ LET e == RowEffect(refs, df.columns, i, df.rows[i + 1])
       IN loc' = [loc EXCEPT
                    !.fixes = @ \o e.fixes,
                    !.invalid_count = @ + e.invalid_count,
                    !.standardized_count = @ + e.standardized_count,
                    !.offline_fixes = @ + e.offline_fixes,
                    !.online_fixes = @ + e.online_fixes,
                    !.manual_review = @ + e.manual_review,
                    !.missing_records = @ \o e.missing_records,
                    !.invalid_records = @ \o e.invalid_records]
    /\ i' = i + 1
    /\ UNCHANGED <<refs, input, data_type, pc, df, dd, result, http>>

\* lines 226-237: the report, the cleaned table, the returned mapping
BuildReport ==
    /\ pc = "rows"
    /\ i = Len(df.rows)
    /\ result' =
         [report |-> _build_report(df, loc.invalid_count, loc.standardized_count,
                                   dd.duplicate_count, loc.offline_fixes,
                                   loc.online_fixes, loc.manual_review),
          cleaned_data |-> ToDictRecords(DropColumn(df, COL_is_duplicate)),
          fixes |-> loc.fixes,
          missing_records |-> loc.missing_records,
          invalid_records |-> loc.invalid_records,
          duplicate_records |-> loc.duplicate_records]
    /\ pc' = "done"
    /\ UNCHANGED <<refs, input, data_type, df, dd, i, loc, http>>

Next == Begin \/ DetectRow \/ FlagDuplicates \/ ProcessRow \/ BuildReport

Spec == Init /\ [][Next]_vars

(* ------------------- _build_report as a pure function ------------------ *)

\* the largest counter and the most columns handed to _build_report
MaxCount == 2
MaxCols == 2

\* a frame of r rows and c columns whose first k cells (row by row) are null
FrameWithNulls(r, c, k) ==
    [columns |-> [b \in 1..c |-> <<"c", DigitChars[b + 1]>>],
     rows |-> [a \in 1..r |->
                 [b \in 1..c |-> IF (a - 1) * c + b <= k THEN NaN ELSE <<"x">>]]]

\* _process_dataframe at line 227 with any frame and any counters
InitScore ==
    /\ refs = RefsEmpty
    /\ input = [columns |-> <<>>, rows |-> <<>>]
    /\ data_type = "people"
    /\ pc = "rows"
    /\ \E r \in 0..MaxRows, c \in 1..MaxCols :
         \E k \in 0..(r * c) : df = FrameWithNulls(r, c, k) /\ i = r
    /\ \E n \in 0..MaxCount : dd = [DedupInit EXCEPT !.duplicate_count = n]
    /\ \E a \in 0..MaxCount, m \in 0..MaxCount :
         loc = [LocInit EXCEPT !.invalid_count = a, !.manual_review = m]
    /\ result = <<>>
    /\ HttpInit

SpecScore == InitScore /\ [][BuildReport]_vars

(* ------------------ several calls on one engine ----------------------- *)

\* the tables of the calls: an email that is good or bad, a person, a company
\*   "Email": "a@x.io", "a b"
\*   "Person_Name": "al bo"
\*   "Company": "acme corp"
ShapeCalls ==
    [header |-> << <<"E","m","a","i","l">>,
                   <<"P","e","r","s","o","n","_","N","a","m","e">>,
                   <<"C","o","m","p","a","n","y">> >>,
     cells |-> << {<<"a","@","x",".","i","o">>, <<"a"," ","b">>},
                  {<<"a","l"," ","b","o">>},
                  {<<"a","c","m","e"," ","c","o","r","p">>} >>]

\* the seen-sets of an earlier call kept for the next one
DedupLocalsMutShared(earlier) ==
    [earlier EXCEPT !.flags = <<>>, !.duplicate_count = 0]

\* lines 279-283: the locals _detect_duplicates starts with, whatever an
\* earlier call on the same engine left behind
DedupLocals(earlier) == DedupInit

InitCalls ==
    /\ refs \in RefChoices
    /\ input \in TablesOf(ShapeCalls)
    /\ data_type \in {"people", "company"}
    /\ pc = "start"
    /\ df = input
    /\ dd = DedupInit
    /\ i = 0
    /\ loc = LocInit
    /\ result = <<>>
    /\ HttpInit

\* the engine of main.py line 39 is handed the next upload (lines 81-83):
\* _process_dataframe starts again with new locals (lines 46-59); the
\* caller still holds what the call before returned
ProcessAgain ==
    /\ pc = "done"
    /\ input' \in TablesOf(ShapeCalls)
    /\ data_type' \in {"people", "company"}
    /\ pc' = "start"
    /\ df' = input'
    /\ dd' = DedupLocals(dd)
    /\ i' = 0
    /\ loc' = LocInit
    /\ UNCHANGED <<refs, result, http>>

NextCalls == Next \/ ProcessAgain

SpecCalls == InitCalls /\ [][NextCalls]_vars

(* --------------------------- the HTTP store ---------------------------- *)

\* the names an upload may carry, and the extensions upload_file accepts
FileNames == { <<"a",".","C","S","V">>, <<"b",".","x","l","s","x">>,
               <<"c",".","x","l","s">>, <<"d",".","c","s","v",".","t","x","t">>,
               <<"c","s","v">> }

\* file.filename.lower().split(".")[-1]
FileExt(filename) ==
    StrSplitOn(StrLower(filename), ".")[Len(StrSplitOn(StrLower(filename), "."))]

\* pd.DataFrame(records): a list without records has no keys to name columns
PdDataFrame(records) ==
    IF records.rows = <<>> THEN [columns |-> <<>>, rows |-> <<>>] ELSE records

\* the service is up, no request is being handled
InitStore ==
    /\ refs \in RefChoices
    /\ input = [columns |-> <<>>, rows |-> <<>>]
    /\ data_type = "people"
    /\ pc = "idle"
    /\ df = input
    /\ dd = DedupInit
    /\ i = 0
    /\ loc = LocInit
    /\ result = <<>>
    /\ HttpInit

\* upload_file, lines 66-76: an extension that is not accepted, or no content
UploadRejected ==
    /\ pc = "idle"
    /\ \E filename \in FileNames, empty \in BOOLEAN :
          FileExt(filename) \notin {<<"c","s","v">>, <<"x","l","s","x">>, <<"x","l","s">>}
          \/ empty
    /\ response' = [endpoint |-> "/upload", status |-> 400]
    /\ UNCHANGED <<refs, input, data_type, pc, df, dd, i, loc, result, store, latest>>

\* a failing upload that clears what was stored
UploadFailsMutClears ==
    /\ pc = "idle"
    /\ \E filename \in FileNames :
          FileExt(filename) \in {<<"c","s","v">>, <<"x","l","s","x">>, <<"x","l","s">>}
    /\ response' = [endpoint |-> "/upload", status |-> 500]
    /\ last_cleaned_df' = <<>>
    /\ last_report' = <<>>
    /\ last_missing_records' = <<>>
    /\ last_invalid_records' = <<>>
    /\ last_duplicate_records' = <<>>
    /\ UNCHANGED <<refs, input, data_type, pc, df, dd, i, loc, result, latest>>

\* upload_file, lines 78-85: the engine raises on content pandas cannot read
UploadFails ==
    /\ pc = "idle"
    /\ \E filename \in FileNames :
          FileExt(filename) \in {<<"c","s","v">>, <<"x","l","s","x">>, <<"x","l","s">>}
    /\ response' = [endpoint |-> "/upload", status |-> 500]
    /\ UNCHANGED <<refs, input, data_type, pc, df, dd, i, loc, result, store, latest>>

\* upload_file, lines 78-83: the content is read into a table and handed to
\* _process_dataframe; status 0 stands for the answer not sent yet
UploadAccepted ==
    /\ pc = "idle"
    /\ \E filename \in FileNames :
          FileExt(filename) \in {<<"c","s","v">>, <<"x","l","s","x">>, <<"x","l","s">>}
    /\ input' \in TablesOf(ShapeCalls)
    /\ data_type' \in {"people", "company"}
    /\ pc' = "start"
    /\ df' = input'
    /\ dd' = DedupInit
    /\ i' = 0
    /\ loc' = LocInit
    /\ result' = <<>>
    /\ response' = [endpoint |-> "/upload", status |-> 0]
    /\ UNCHANGED <<refs, store, latest>>

\* upload_file, lines 87-99: the five globals are assigned from the result
\* and the request is answered
StoreResult ==
    /\ pc = "done"
    /\ last_cleaned_df' = <<PdDataFrame(result.cleaned_data)>>
    /\ last_report' = <<result.report>>
    /\ last_missing_records' = <<result.missing_records>>
    /\ last_invalid_records' = <<result.invalid_records>>
    /\ last_duplicate_records' = <<result.duplicate_records>>
    /\ response' = [endpoint |-> "/upload", status |-> 200]
    /\ latest' = <<[table |-> input, data_type |-> data_type]>>
    /\ pc' = "idle"
    /\ UNCHANGED <<refs, input, data_type, df, dd, i, loc, result>>

\* get_report
GetReport ==
    /\ pc = "idle"
    /\ response' = [endpoint |-> "/report",
                    status |-> IF last_report = <<>> THEN 404 ELSE 200]
    /\ UNCHANGED <<refs, input, data_type, pc, df, dd, i, loc, result, store, latest>>

\* download_cleaned
DownloadCleaned ==
    /\ pc = "idle"
    /\ response' = [endpoint |-> "/download/cleaned",
                    status |-> IF last_cleaned_df = <<>> THEN 404 ELSE 200]
    /\ UNCHANGED <<refs, input, data_type, pc, df, dd, i, loc, result, store, latest>>

\* download_excel
DownloadExcel ==
    /\ pc = "idle"
    /\ response' = [endpoint |-> "/download/excel",
                    status |-> IF last_cleaned_df = <<>> THEN 404 ELSE 200]
    /\ UNCHANGED <<refs, input, data_type, pc, df, dd, i, loc, result, store, latest>>

NextStore ==
    \/ Next
    \/ UploadRejected \/ UploadFails \/ UploadAccepted \/ StoreResult
    \/ GetReport \/ DownloadCleaned \/ DownloadExcel

SpecStore == InitStore /\ [][NextStore]_vars

(* ------------------- the duplicate pass on longer tables -------------- *)

\* the most rows of a table handed to the duplicate pass alone
MaxDedupRows == 3

\* rows of email, phone, person and company that repeat one another's keys
\*   "a@x.io", "1234567890", "al bo", "acme corp"
\*   "b@x.io", "1234567890", "cy", "zeta"
\*   "b@x.io", NaN, "cy", "zeta"
\*   "a@x.io", NaN, NaN, "acme corp"
\*   "b@x.io", NaN, NaN, "acme corp"
\*   "b@x.io", NaN, NaN, "zeta"
ShapeDedup ==
    [header |-> << <<"E","m","a","i","l">>,
                   <<"P","h","o","n","e">>,
                   <<"P","e","r","s","o","n","_","N","a","m","e">>,
                   <<"C","o","m","p","a","n","y">> >>,
     rows |-> {<< <<"a","@","x",".","i","o">>, <<"1","2","3","4","5","6","7","8","9","0">>,
                  <<"a","l"," ","b","o">>, <<"a","c","m","e"," ","c","o","r","p">> >>,
               << <<"b","@","x",".","i","o">>, <<"1","2","3","4","5","6","7","8","9","0">>,
                  <<"c","y">>, <<"z","e","t","a">> >>,
               << <<"b","@","x",".","i","o">>, NaN, <<"c","y">>, <<"z","e","t","a">> >>,
               << <<"a","@","x",".","i","o">>, NaN, NaN,
                  <<"a","c","m","e"," ","c","o","r","p">> >>,
               << <<"b","@","x",".","i","o">>, NaN, NaN,
                  <<"a","c","m","e"," ","c","o","r","p">> >>,
               << <<"b","@","x",".","i","o">>, NaN, NaN, <<"z","e","t","a">> >>}]

\* _process_dataframe up to the end of the loop of _detect_duplicates
InitDedup ==
    /\ refs = RefsEmpty
    /\ \E n \in 0..MaxDedupRows :
         \E rs \in [1..n -> ShapeDedup.rows] :
             input = [columns |-> ShapeDedup.header, rows |-> rs]
    /\ data_type \in {"people", "company"}
    /\ pc = "start"
    /\ df = input
    /\ dd = DedupInit
    /\ i = 0
    /\ loc = LocInit
    /\ result = <<>>
    /\ HttpInit

SpecDedup == InitDedup /\ [][Begin \/ DetectRow]_vars

(* ------------------------------ the claims ----------------------------- *)

\* how many flags of a sequence of booleans are true
TrueFlags(flags) == Cardinality({r \in 1..Len(flags) : flags[r]})

FixesWith(fixes, mode) ==
    Cardinality({k \in 1..Len(fixes) : fixes[k].processing_mode = mode})

\* the cell of row r of the working frame in the named column, "" if absent
CellOf(r, name) == RowGet(df.columns, df.rows[r], name, <<>>)

\* C1: _detect_duplicates yields one flag per row, in row order; its
\* duplicate count is the number of true flags, which is the number of
\* duplicate_records and the report's duplicate_rows.
C1_OneFlagPerRow ==
    /\ pc = "dedup" =>
         /\ Len(dd.flags) = i
         /\ dd.duplicate_count = TrueFlags(dd.flags)
    /\ pc \in {"rows", "done"} =>
         /\ Len(dd.flags) = Len(df.rows)
         /\ Len(dd.flags) = Len(input.rows)
         /\ dd.duplicate_count = TrueFlags(dd.flags)
         /\ Len(loc.duplicate_records) = TrueFlags(dd.flags)
         /\ \A r \in 1..Len(df.rows) :
              CellOf(r, COL_is_duplicate) = IF dd.flags[r] THEN PyTrue ELSE PyFalse
         /\ \A r \in 1..Len(dd.flags) :
              dd.flags[r] <=> \E k \in 1..Len(loc.duplicate_records) :
                                 loc.duplicate_records[k].row_index = r - 1
    /\ pc = "done" =>
         /\ result.report.duplicate_rows = TrueFlags(dd.flags)
         /\ Len(result.duplicate_records) = TrueFlags(dd.flags)

C1_Witness ==
    /\ pc = "done"
    /\ Len(input.rows) = 2
    /\ dd.flags = <<FALSE, TRUE>>
    /\ result.report.duplicate_rows = 1

\* the email of row r as the claims speak of it: the cell of the email (or
\* people_email) column, lower-cased and trimmed; "" when null or absent
ClaimEmail(r) ==
    LET cell == IF HasCol(df.columns, COL_email) THEN CellOf(r, COL_email)
                ELSE CellOf(r, COL_people_email)
    IN IF IsNa(cell) THEN <<>> ELSE StrStrip(StrLower(cell))

\* C2: in both modes a row whose normalised email is non-empty and equals
\* that of an earlier non-duplicate row is flagged; of two rows whose emails
\* agree after normalisation the second is flagged and the first is not.
C2_SameEmailIsDuplicate ==
    /\ \A r \in 1..Len(dd.flags) :
         (/\ ClaimEmail(r) # <<>>
          /\ \E q \in 1..(r - 1) : ~dd.flags[q] /\ ClaimEmail(q) = ClaimEmail(r))
         => dd.flags[r]
    /\ (Len(dd.flags) = 2 /\ Len(df.rows) = 2 /\ ClaimEmail(1) # <<>>
        /\ ClaimEmail(1) = ClaimEmail(2))
       => dd.flags = <<FALSE, TRUE>>

C2_Witness ==
    /\ pc = "done"
    /\ Len(df.rows) = 2
    /\ CellOf(1, COL_email) # CellOf(2, COL_email)
    /\ ClaimEmail(1) # <<>>
    /\ ClaimEmail(1) = ClaimEmail(2)
    /\ dd.flags = <<FALSE, TRUE>>

\* the three PERSON-mode rules, for the row the loop is about to read
RuleEmail(email) == email # <<>> /\ email \in dd.email_seen
RulePhone(phone) == phone # <<>> /\ phone \in dd.phone_seen
RulePair(person, company) ==
    /\ person # <<>>
    /\ company # <<>>
    /\ \E k \in 1..Len(dd.person_company_seen) :
         /\ FracGE(TokenSortRatio(company, dd.person_company_seen[k][2]), 90)
         /\ FracGE(TokenSortRatio(person, dd.person_company_seen[k][1]), 90)
PersonSimilar(person) ==
    \E k \in 1..Len(dd.person_company_seen) :
        FracGE(TokenSortRatio(person, dd.person_company_seen[k][1]), 90)

\* C3: in PERSON mode the row read next is flagged exactly when its email
\* is in the seen-email set, or its phone is in the seen-phone set, or its
\* person and company are both set and an anchor is within 90 on both; a
\* match on the company alone never flags it.
C3_PersonModeRule ==
    [][(pc = "dedup" /\ i < Len(df.rows) /\ data_type # "company") =>
        LET row == df.rows[i + 1]
            email == get_email(df.columns, row)
            phone == get_phone(df.columns, row)
            person == get_person(df.columns, row)
            company == get_company(df.columns, row)
        IN /\ Len(dd'.flags) = i + 1
           /\ dd'.flags[i + 1] <=>
                (RuleEmail(email) \/ RulePhone(phone) \/ RulePair(person, company))
           /\ (~RuleEmail(email) /\ ~RulePhone(phone)
               /\ (person = <<>> \/ ~PersonSimilar(person)))
              => ~dd'.flags[i + 1]]_vars

\* a second row with no email or phone, flagged through its person and
\* company alone
C3_Witness ==
    /\ pc = "done"
    /\ data_type = "people"
    /\ ~HasCol(df.columns, COL_email) /\ ~HasCol(df.columns, COL_phone)
    /\ Len(df.rows) = 2
    /\ dd.flags = <<FALSE, TRUE>>
    /\ CellOf(1, COL_company) # CellOf(2, COL_company)

\* C4: in COMPANY mode a row whose company is within 90 of the company of an
\* earlier non-duplicate row is flagged, whatever the person fields are; in
\* PERSON mode a row without person, email and phone is not flagged.
C4_CompanyModeRule ==
    \A r \in 1..Len(dd.flags) :
        LET cols == df.columns
            company == get_company(cols, df.rows[r])
        IN /\ (/\ data_type = "company"
               /\ company # <<>>
               /\ \E q \in 1..(r - 1) :
                    /\ ~dd.flags[q]
                    /\ get_company(cols, df.rows[q]) # <<>>
                    /\ FracGE(TokenSortRatio(company, get_company(cols, df.rows[q])), 90))
              => dd.flags[r]
           /\ (/\ data_type = "people"
               /\ get_person(cols, df.rows[r]) = <<>>
               /\ get_email(cols, df.rows[r]) = <<>>
               /\ get_phone(cols, df.rows[r]) = <<>>)
              => ~dd.flags[r]

\* two rows without a person, companies alike but not equal, COMPANY mode
C4_Witness ==
    /\ pc = "done"
    /\ data_type = "company"
    /\ Len(df.rows) = 2
    /\ get_person(df.columns, df.rows[1]) = <<>>
    /\ get_person(df.columns, df.rows[2]) = <<>>
    /\ get_company(df.columns, df.rows[1]) # get_company(df.columns, df.rows[2])
    /\ dd.flags = <<FALSE, TRUE>>

\* C5: every FixEvent in the ledger has a confidence in [0, 1] (0..100
\* hundredths), the categorical ones included.
C5_ConfidenceInUnitInterval ==
    \A k \in 1..Len(loc.fixes) :
        loc.fixes[k].confidence >= 0 /\ loc.fixes[k].confidence <= 100

\* a categorical fix whose confidence is a fuzzy similarity
C5_Witness ==
    /\ pc = "done"
    /\ \E k \in 1..Len(result.fixes) :
         /\ result.fixes[k].field = COL_country
         /\ result.fixes[k].confidence = 89
         /\ result.fixes[k].processing_mode = "OFFLINE"

\* C6: manual_review is the number of MANUAL FixEvents plus the number of
\* ONLINE FixEvents with confidence below accept_threshold.
C6_ManualReviewCount ==
    /\ loc.manual_review =
         FixesWith(loc.fixes, "MANUAL")
         + Cardinality({k \in 1..Len(loc.fixes) :
                          /\ loc.fixes[k].processing_mode = "ONLINE"
                          /\ loc.fixes[k].confidence < 80})
    /\ pc = "done" =>
         /\ result.report.manual_review = loc.manual_review
         /\ result.fixes = loc.fixes

\* a ledger holding a MANUAL fix, an ONLINE fix at 0.82 and one at 0.0
C6_Witness ==
    /\ pc = "done"
    /\ \E k \in 1..Len(loc.fixes) : loc.fixes[k].processing_mode = "MANUAL"
    /\ \E k \in 1..Len(loc.fixes) :
         loc.fixes[k].processing_mode = "ONLINE" /\ loc.fixes[k].confidence = 82
    /\ \E k \in 1..Len(loc.fixes) :
         loc.fixes[k].processing_mode = "ONLINE" /\ loc.fixes[k].confidence = 0

\* the null cells of the working frame, counted cell by cell
NullCells ==
    Cardinality({rc \in (1..Len(df.rows)) \X (1..Len(df.columns)) :
                   IsNa(df.rows[rc[1]][rc[2]])})

\* the penalty of the quality score, from the counts of the run
ClaimPenalty ==
    NullCells + loc.invalid_count + 2 * TrueFlags(dd.flags) + 3 * loc.manual_review

\* s is 100 - x clamped to [0, 100], x being 100 * p / n to two decimals
\* (all in hundredths)
IsClampedScore(s, p, n) ==
    LET q == (10000 * p) \div n
    IN \E x \in {q, q + 1} :
         /\ 2 * (10000 * p - x * n) <= n
         /\ 2 * (x * n - 10000 * p) <= n
         /\ s = IF 10000 - x < 0 THEN 0 ELSE IF 10000 - x > 10000 THEN 10000
                ELSE 10000 - x

\* C7: the quality score is max(0, min(100, 100 - round(100 * penalty /
\* (total_cells + 1), 2))) with penalty = nulls + invalid + 2 * duplicates
\* + 3 * manual_review and total_cells = rows * columns of the processed
\* frame; it is defined for every table and lies in [0, 100].
C7_QualityScoreFormula ==
    pc = "done" =>
        LET score == result.report.overall_quality_score
            total_cells == Len(df.rows) * Len(df.columns)
        IN /\ total_cells + 1 > 0
           /\ score >= 0 /\ score <= 10000
           /\ result.report.missing_fields = NullCells
           /\ IsClampedScore(score, ClaimPenalty, total_cells + 1)

\* a run with a duplicate and a manual review whose score is neither 0 nor 100
C7_Witness ==
    /\ pc = "done"
    /\ Len(df.rows) = 2
    /\ TrueFlags(dd.flags) = 1
    /\ loc.manual_review > 0
    /\ result.report.overall_quality_score > 0
    /\ result.report.overall_quality_score < 10000

\* the score _build_report gives when the four counts grow by the given
\* amounts, the frame's rows and columns staying as they are
ScoreAfter(d_missing, d_invalid, d_dup, d_manual) ==
    QualityScore(result.report.missing_fields + d_missing,
                 result.report.invalid_fields + d_invalid,
                 result.report.duplicate_rows + d_dup,
                 result.report.manual_review + d_manual,
                 result.report.records * result.report.total_columns)

\* C8: with rows and columns fixed, raising the null count, the invalid
\* count, the duplicate count or the manual-review count never raises the
\* quality score.
C8_ScoreMonotone ==
    pc = "done" =>
        \A a \in 0..MaxCount, b \in 0..MaxCount, c \in 0..MaxCount, d \in 0..MaxCount :
            ScoreAfter(a, b, c, d) <= result.report.overall_quality_score

\* a report whose score strictly drops when one more cell is null
C8_Witness ==
    /\ pc = "done"
    /\ result.report.records > 0
    /\ result.report.manual_review > 0
    /\ result.report.overall_quality_score > 0
    /\ ScoreAfter(1, 0, 0, 0) < result.report.overall_quality_score

\* the place of a field in the order the row loop visits them
FieldRank(field) ==
    CASE field = COL_country -> 1
      [] field = COL_industry -> 2
      [] field \in {COL_job_title, COL_jobtitle} -> 3
      [] field \in {COL_email, COL_people_email} -> 4
      [] field \in {COL_phone, COL_people_phone} -> 5
      [] field = COL_first_name -> 6
      [] field = COL_last_name -> 7
      [] field = COL_middle_name -> 8
      [] field = COL_person_name -> 9
      [] field = COL_id -> 10
      [] field \in {COL_email_score, COL_people_email_score} -> 11
      [] OTHER -> 0

\* C9: the ledger is ordered by row and, within a row, by country,
\* industry, job title, email, phone, first_name, last_name, middle_name,
\* person_name, id, score fields.
C9_LedgerOrder ==
    /\ \A k \in 1..Len(loc.fixes) : FieldRank(loc.fixes[k].field) > 0
    /\ \A k \in 1..(Len(loc.fixes) - 1) :
         \/ loc.fixes[k].row_index < loc.fixes[k + 1].row_index
         \/ /\ loc.fixes[k].row_index = loc.fixes[k + 1].row_index
            /\ FieldRank(loc.fixes[k].field) < FieldRank(loc.fixes[k + 1].field)
    /\ pc = "done" => result.fixes = loc.fixes

\* a ledger with email, phone and name fixes of row 0 followed by row 1
C9_Witness ==
    /\ pc = "done"
    /\ Len(result.fixes) >= 4
    /\ result.fixes[1].row_index = 0 /\ result.fixes[1].field = COL_people_email
    /\ result.fixes[2].row_index = 0 /\ result.fixes[2].field = COL_people_phone
    /\ result.fixes[3].row_index = 0 /\ result.fixes[3].field = COL_first_name
    /\ result.fixes[4].row_index = 1

\* C10: cleaned_data has the rows of the input in the input's order and
\* keeps every column of the input, whatever its name; only the engine's
\* own duplicate marker is left out.
C10_EveryInputColumnKept ==
    pc = "done" =>
        LET orig == ReplaceBlanks(NormalizeColumns(input))
            cleaned == result.cleaned_data
        IN /\ Len(cleaned.rows) = Len(input.rows)
           /\ \A c \in 1..Len(orig.columns) :
                /\ HasCol(cleaned.columns, orig.columns[c])
                /\ \A r \in 1..Len(cleaned.rows) :
                     RowGet(cleaned.columns, cleaned.rows[r], orig.columns[c],
                            <<"<absent>">>) = orig.rows[r][c]
           /\ \A c \in 1..Len(cleaned.columns) :
                \/ HasCol(orig.columns, cleaned.columns[c])
                \/ cleaned.columns[c] = COL_domain

\* the ledger entries and the invalid_records of row r (counted from 1)
\* for a field
FixesAt(r, field) ==
    {k \in 1..Len(loc.fixes) :
        loc.fixes[k].row_index = r - 1 /\ loc.fixes[k].field = field}
InvalidAt(r, field) ==
    {k \in 1..Len(loc.invalid_records) :
        /\ loc.invalid_records[k].row_index = r - 1
        /\ loc.invalid_records[k].field = field}

\* the row loop has finished row r
RowDone(r) == (pc = "rows" /\ r <= i) \/ pc = "done"

\* the email column the row loop reads, and its cell in row r
ClaimEmailField ==
    IF HasCol(df.columns, COL_email) THEN COL_email ELSE COL_people_email
HasEmailField == HasCol(df.columns, COL_email) \/ HasCol(df.columns, COL_people_email)
EmailCell(r) == CellOf(r, ClaimEmailField)

\* the "@" of a text
AtCount(s) == Cardinality({k \in 1..Len(s) : s[k] = "@"})

\* a text without the "@" that follow its first one
KeepFirstAt(s) ==
    SelectSeq([k \in 1..Len(s) |->
                 IF s[k] = "@" /\ \E j \in 1..(k - 1) : s[j] = "@" THEN "" ELSE s[k]],
              LAMBDA c : c # "")

\* the diagnostic of an email with n "@"
AtDiagnostic(n) == "Invalid: contains " \o ToString(n) \o " @ symbols (should be 1)"

\* row r holds an email with more than one "@" and the loop has passed it
MultiAtRow(r) ==
    /\ RowDone(r)
    /\ HasEmailField
    /\ ~IsNa(EmailCell(r))
    /\ AtCount(StrStrip(EmailCell(r))) > 1

EmailText(r) == StrStrip(PyStr(EmailCell(r)))

\* row r holds an email that passes the structural checks and the syntax
\* validation, and the loop has passed it
ValidEmailRow(r) ==
    /\ RowDone(r)
    /\ HasEmailField
    /\ ~IsNa(EmailCell(r))
    /\ validate_email(EmailText(r)).ok
    /\ \A k \in 1..Len(validate_email(EmailText(r)).local_part) :
          LocalCharOk(validate_email(EmailText(r)).local_part[k])

\* the accepted domains within 0.70 of a domain, and those of them no other
\* accepted domain is closer than
NearDomains(dom) ==
    {d \in Range(refs.email_domains) : FracGE(FuzzRatio(dom, d), 70)}
ClosestDomains(dom) ==
    {d \in NearDomains(dom) :
        \A o \in Range(refs.email_domains) :
            ~FracGT(FuzzRatio(dom, o), FuzzRatio(dom, d))}

\* C12: a valid email whose domain is not accepted while the accepted set is
\* non-empty and holds a domain within 0.70 has exactly one FixEvent: OFFLINE,
\* 0.8, "domain standardized", suggesting local-part@closest-domain. Any
\* other valid email is accepted: no invalid_record, its domain is not
\* replaced, and the only FixEvent it can have is the normalisation of its
\* own text ("valid", 0.9).
C12_DomainStandardized ==
    \A r \in 1..Len(df.rows) :
        ValidEmailRow(r) =>
            LET info == validate_email(EmailText(r))
                fixes == FixesAt(r, ClaimEmailField)
            IN /\ InvalidAt(r, ClaimEmailField) = {}
               /\ IF /\ refs.email_domains # <<>>
                     /\ info.domain \notin Range(refs.email_domains)
                     /\ NearDomains(info.domain) # {}
                  THEN /\ Cardinality(fixes) = 1
                       /\ \A k \in fixes :
                            /\ loc.fixes[k].processing_mode = "OFFLINE"
                            /\ loc.fixes[k].confidence = 80
                            /\ loc.fixes[k].note = "domain standardized"
                            /\ \E d \in ClosestDomains(info.domain) :
                                 loc.fixes[k].suggested
                                   = info.local_part \o <<"@">> \o d
                  ELSE /\ Cardinality(fixes) <= 1
                       /\ (EmailCell(r) = info.normalized) => fixes = {}
                       /\ \A k \in fixes :
                            /\ loc.fixes[k].processing_mode = "OFFLINE"
                            /\ loc.fixes[k].confidence = 90
                            /\ loc.fixes[k].note = "valid"
                            /\ loc.fixes[k].suggested
                                 = info.local_part \o <<"@">> \o info.domain

\* "a@gmial.com" sent to "a@gmail.com" with gmail.com accepted
C12_Witness ==
    /\ pc = "done"
    /\ refs = RefsLoaded
    /\ Len(df.rows) >= 1
    /\ ValidEmailRow(1)
    /\ EmailCell(1) = <<"a","@","g","m","i","a","l",".","c","o","m">>
    /\ \E k \in FixesAt(1, ClaimEmailField) :
         /\ loc.fixes[k].suggested = <<"a","@","g","m","a","i","l",".","c","o","m">>
         /\ loc.fixes[k].confidence = 80
         /\ loc.fixes[k].processing_mode = "OFFLINE"

\* the phone column the row loop reads, and its cell in row r
ClaimPhoneField ==
    IF HasCol(df.columns, COL_phone) THEN COL_phone ELSE COL_people_phone
HasPhoneField == HasCol(df.columns, COL_phone) \/ HasCol(df.columns, COL_people_phone)
PhoneCell(r) == CellOf(r, ClaimPhoneField)

\* the digits of a text, in order
ClaimDigits(s) == SelectSeq(s, LAMBDA c : c \in Range(DigitChars))

\* row r holds a phone and the loop has passed it
PhoneRow(r) == RowDone(r) /\ HasPhoneField /\ ~IsNa(PhoneCell(r))

\* C13: for a non-null phone with d digits: d < 10 or d > 15 gives one
\* MANUAL FixEvent at 0.0 and one invalid_record; 10 <= d <= 15 gives one
\* OFFLINE FixEvent at 0.85 to "+" and the digits when that differs from the
\* cell, and neither FixEvent nor invalid_record when it is the cell. A
\* phone of 7 to 9 digits is never accepted.
C13_StrictPhone ==
    \A r \in 1..Len(df.rows) :
        PhoneRow(r) =>
            LET d == Len(ClaimDigits(PhoneCell(r)))
                canonical == <<"+">> \o ClaimDigits(PhoneCell(r))
                fixes == FixesAt(r, ClaimPhoneField)
            IN IF d < 10 \/ d > 15
               THEN /\ Cardinality(fixes) = 1
                    /\ Cardinality(InvalidAt(r, ClaimPhoneField)) = 1
                    /\ \A k \in fixes :
                         /\ loc.fixes[k].processing_mode = "MANUAL"
                         /\ loc.fixes[k].confidence = 0
                         /\ loc.fixes[k].suggested = PhoneCell(r)
               ELSE /\ InvalidAt(r, ClaimPhoneField) = {}
                    /\ IF canonical = PhoneCell(r) THEN fixes = {}
                       ELSE /\ Cardinality(fixes) = 1
                            /\ \A k \in fixes :
                                 /\ loc.fixes[k].processing_mode = "OFFLINE"
                                 /\ loc.fixes[k].confidence = 85
                                 /\ loc.fixes[k].original = PhoneCell(r)
                                 /\ loc.fixes[k].suggested = canonical

\* "12345678" rejected in one row, "+1234567890" left alone in the next
C13_Witness ==
    /\ pc = "done"
    /\ Len(df.rows) = 2
    /\ PhoneRow(1) /\ PhoneRow(2)
    /\ Len(ClaimDigits(PhoneCell(1))) = 8
    /\ \E k \in FixesAt(1, ClaimPhoneField) : loc.fixes[k].processing_mode = "MANUAL"
    /\ PhoneCell(2) = <<"+","1","2","3","4","5","6","7","8","9","0">>
    /\ FixesAt(2, ClaimPhoneField) = {}

\* "123-456-7890" sent to "+1234567890"
C13_WitnessReformatted ==
    /\ pc = "done"
    /\ \E r \in 1..Len(df.rows) :
         /\ PhoneRow(r)
         /\ PhoneCell(r) = <<"1","2","3","-","4","5","6","-","7","8","9","0">>
         /\ \E k \in FixesAt(r, ClaimPhoneField) :
              loc.fixes[k].suggested = <<"+","1","2","3","4","5","6","7","8","9","0">>

\* the name columns the row loop reads
NameFields == {COL_first_name, COL_last_name, COL_middle_name, COL_person_name}

\* the canonical forms: "+" and 10 to 15 digits; letters, blanks, hyphens
\* and apostrophes; an email that is its own validated normalised text
CanonicalPhone(cell) ==
    /\ ~IsNa(cell)
    /\ cell = <<"+">> \o ClaimDigits(cell)
    /\ Len(ClaimDigits(cell)) >= 10 /\ Len(ClaimDigits(cell)) <= 15
CanonicalName(cell) ==
    /\ ~IsNa(cell)
    /\ cell # <<>>
    /\ \A k \in 1..Len(cell) : IsAlpha(cell[k]) \/ cell[k] \in {" ", "-", "'"}
CanonicalEmail(cell) ==
    /\ ~IsNa(cell)
    /\ validate_email(cell).ok
    /\ \A k \in 1..Len(validate_email(cell).local_part) :
          LocalCharOk(validate_email(cell).local_part[k])
    /\ cell = validate_email(cell).normalized

\* no FixEvent of row r for the phone, for the names, for the email
NoPhoneFix(r) == FixesAt(r, ClaimPhoneField) = {}
NoNameFix(r, field) == FixesAt(r, field) = {}
NoEmailFix(r) == FixesAt(r, ClaimEmailField) = {}

\* the phone and name part of the idempotence statement
CanonicalPhonesAndNamesKept ==
    \A r \in 1..Len(df.rows) :
        RowDone(r) =>
            /\ (HasPhoneField /\ CanonicalPhone(PhoneCell(r))) => NoPhoneFix(r)
            /\ \A field \in NameFields :
                 (HasCol(df.columns, field) /\ CanonicalName(CellOf(r, field)))
                 => NoNameFix(r, field)
            /\ (HasPhoneField /\ ~IsNa(PhoneCell(r))
                /\ _validate_phone_strict(PhoneCell(r)).is_valid) =>
                 LET again == _validate_phone_strict(
                                  _validate_phone_strict(PhoneCell(r)).cleaned)
                 IN /\ again.is_valid
                    /\ again.note = "Valid"
                    /\ again.conf = Conf(100)
                    /\ again.cleaned = _validate_phone_strict(PhoneCell(r)).cleaned
                    /\ CanonicalPhone(again.cleaned)

ClaimRefSet(field) == IF field = COL_country THEN refs.countries ELSE refs.industries

\* the members of a reference set no other member is more similar to v than
BestMatches(v, ref) ==
    {d \in Range(ref) :
        \A o \in Range(ref) : ~FracGT(TokenSortRatio(v, o), TokenSortRatio(v, d))}

\* row r holds, in a categorical field, a value that is neither empty (or
\* the null placeholder) nor a member of the reference set, and the loop
\* has passed it
FuzzyRow(r, field) ==
    /\ RowDone(r)
    /\ HasCol(df.columns, field)
    /\ ~IsNa(CellOf(r, field))
    /\ StrStrip(CellOf(r, field)) # <<>>
    /\ StrLower(CellOf(r, field)) # <<"n","a","n">>
    /\ StrStrip(CellOf(r, field)) \notin Range(ClaimRefSet(field))

\* C15: for a categorical value that is not empty and not in the reference
\* set: when the best similarity over the set is at least 0.60 the result is
\* a best match, OFFLINE, with the similarity as confidence, noted
\* "standardized" from 0.80 on and "suggested" below; the result is ONLINE
\* only when the set is empty or the best similarity is below 0.60. The
\* FixEvent of the field carries that result.
C15_FuzzyMatchOffline ==
    \A r \in 1..Len(df.rows) : \A field \in {COL_country, COL_industry} :
        FuzzyRow(r, field) =>
            LET v == StrStrip(CellOf(r, field))
                ref == ClaimRefSet(field)
                res == _standardize_value(PyStr(CellOf(r, field)), ref, field)
                fixes == FixesAt(r, field)
            IN /\ IF ref # <<>>
                     /\ \E d \in BestMatches(v, ref) : FracGE(TokenSortRatio(v, d), 60)
                  THEN /\ res.mode = "OFFLINE"
                       /\ res.value \in BestMatches(v, ref)
                       /\ res.conf.num * TokenSortRatio(v, res.value).den * 100
                            = TokenSortRatio(v, res.value).num * res.conf.den
                       /\ res.note = (IF FracGE(TokenSortRatio(v, res.value), 80)
                                      THEN "standardized " ELSE "suggested ")
                                     \o Str(field)
                       /\ Cardinality(fixes) = 1
                       /\ \A k \in fixes :
                            loc.fixes[k].confidence
                              = RoundHalfEven(TokenSortRatio(v, res.value).num,
                                              TokenSortRatio(v, res.value).den)
                  ELSE /\ res.mode = "ONLINE"
                       /\ Cardinality(fixes) <= 1
               /\ \A k \in fixes :
                    /\ loc.fixes[k].processing_mode = res.mode
                    /\ loc.fixes[k].suggested = res.value
                    /\ loc.fixes[k].note = res.note
                    /\ loc.fixes[k].original = CellOf(r, field)

\* with the countries loaded: "Ina" suggested as "India" at 0.75 in one row,
\* "peru" escalated in the next
C15_Witness ==
    /\ pc = "done"
    /\ refs = RefsLoaded
    /\ Len(df.rows) = 2
    /\ FuzzyRow(1, COL_country) /\ FuzzyRow(2, COL_country)
    /\ \E k \in FixesAt(1, COL_country) :
         /\ loc.fixes[k].processing_mode = "OFFLINE"
         /\ loc.fixes[k].suggested = <<"I","n","d","i","a">>
         /\ loc.fixes[k].confidence = 75
         /\ loc.fixes[k].note = "suggested country"
    /\ \E k \in FixesAt(2, COL_country) :
         /\ loc.fixes[k].processing_mode = "ONLINE"
         /\ loc.fixes[k].suggested = <<"P","e","r","u">>

\* what a call on a new engine makes of a table: the frame after lines
\* 46-66, the dedup locals after the pass over its rows, the ledger after
\* the row loop, the returned mapping
FreshFrame(table) ==
    LET d == ReplaceBlanks(NormalizeColumns(table))
    IN IF ~HasCol(d.columns, COL_domain)
          /\ (HasCol(d.columns, COL_website) \/ HasCol(d.columns, COL_domain_url))
       THEN DeriveDomain(d) ELSE d

RECURSIVE FreshDedup(_, _, _, _)
FreshDedup(mode, cols, rows, st) ==
    IF rows = <<>> THEN st
    ELSE FreshDedup(mode, cols, Tail(rows), DedupStep(mode, cols, Head(rows), st))

\* the flags of a table processed in a mode on a new engine
FreshFlags(table, mode) ==
    FreshDedup(mode, FreshFrame(table).columns, FreshFrame(table).rows,
               DedupInit).flags

RECURSIVE FreshLoop(_, _, _, _, _)
FreshLoop(rf, cols, rows, idx, l) ==
    IF idx = Len(rows) THEN l
    ELSE LET e == RowEffect(rf, cols, idx, rows[idx + 1])
         IN FreshLoop(rf, cols, rows, idx + 1,
                [l EXCEPT
                    !.fixes = @ \o e.fixes,
                    !.invalid_count = @ + e.invalid_count,
                    !.standardized_count = @ + e.standardized_count,
                    !.offline_fixes = @ + e.offline_fixes,
                    !.online_fixes = @ + e.online_fixes,
                    !.manual_review = @ + e.manual_review,
                    !.missing_records = @ \o e.missing_records,
                    !.invalid_records = @ \o e.invalid_records])

FreshResult(rf, table, mode) ==
    LET flags == FreshFlags(table, mode)
        hits == SelectSeq([r \in 1..Len(flags) |-> r], LAMBDA r : flags[r])
        frame == SetColumn(FreshFrame(table), COL_is_duplicate,
                     [r \in 1..Len(flags) |-> IF flags[r] THEN PyTrue ELSE PyFalse])
        l == FreshLoop(rf, frame.columns, frame.rows, 0, LocInit)
    IN [report |-> _build_report(frame, l.invalid_count, l.standardized_count,
                                 TrueFlags(flags), l.offline_fixes,
                                 l.online_fixes, l.manual_review),
        cleaned_data |-> ToDictRecords(DropColumn(frame, COL_is_duplicate)),
        fixes |-> l.fixes,
        missing_records |-> l.missing_records,
        invalid_records |-> l.invalid_records,
        duplicate_records |-> [k \in 1..Len(hits) |-> [row_index |-> hits[k] - 1]]]

\* C16: whatever calls came before on the same engine, the flags a call
\* computes and the mapping it returns are those a new engine gives for the
\* call's table and mode; the locals of a call start empty.
C16_RequestScoped ==
    /\ pc = "start" => (dd = DedupInit /\ loc = LocInit)
    /\ pc \in {"rows", "done"} => dd.flags = FreshFlags(input, data_type)
    /\ pc = "done" => result = FreshResult(refs, input, data_type)

\* a second call under way whose first row carries the email, person and
\* company an earlier call has seen, and is not flagged
C16_Witness ==
    /\ pc = "rows"
    /\ result # <<>>
    /\ Len(result.cleaned_data.rows) >= 1
    /\ Len(result.fixes) >= 1
    /\ Len(df.rows) = 2
    /\ result.cleaned_data.rows[1][1] = df.rows[1][1]
    /\ ~IsNa(df.rows[1][1])
    /\ dd.flags = <<FALSE, TRUE>>
    /\ i = 2
    /\ loc.fixes = <<>>

\* the fields the row loop validates in the working frame
ClaimJobField ==
    IF HasCol(df.columns, COL_job_title) THEN COL_job_title ELSE COL_jobtitle
ScoreFields == {COL_email_score, COL_people_email_score}
ValidatedFields ==
    {f \in {ClaimJobField, ClaimEmailField, ClaimPhoneField, COL_id}
           \cup NameFields \cup ScoreFields : HasCol(df.columns, f)}

\* the validator of the field rejects the non-null cell of row r
Rejected(r, field) ==
    /\ ~IsNa(CellOf(r, field))
    /\ CASE field = ClaimJobField ->
              ~_validate_job_title(refs.job_title_map, PyStr(CellOf(r, field))).is_valid
         [] field = ClaimEmailField ->
              _validate_email(PyStr(CellOf(r, field)), df.columns, df.rows[r],
                              refs.email_domains).mode = "MANUAL"
         [] field = ClaimPhoneField ->
              ~_validate_phone_strict(PyStr(CellOf(r, field))).is_valid
         [] field \in NameFields -> ~_validate_name(PyStr(CellOf(r, field))).is_valid
         [] field = COL_id -> ~_validate_id(PyStr(CellOf(r, field))).is_valid
         [] OTHER -> ~_validate_score(PyStr(CellOf(r, field))).is_valid

\* C17 as stated: a rejected non-null field has exactly one invalid_record
\* and exactly one FixEvent for its row and field, and that event is MANUAL.
C17_RejectedIsManual ==
    \A r \in 1..Len(df.rows) : \A field \in ValidatedFields :
        (RowDone(r) /\ Rejected(r, field)) =>
            /\ Cardinality(InvalidAt(r, field)) = 1
            /\ Cardinality(FixesAt(r, field)) = 1
            /\ \A k \in FixesAt(r, field) : loc.fixes[k].processing_mode = "MANUAL"

\* C17: a rejected non-null field has exactly one invalid_record and exactly
\* one FixEvent for its row and field. The event is MANUAL at 0.0 for a job
\* title, a phone and a score, and for a name or an id that has no usable
\* suggestion; a name or an id with a usable suggestion has an OFFLINE event
\* (0.70, 0.80), and an email an OFFLINE (0.85) or an ONLINE (0.0) one.
C17_RejectedRecorded ==
    \A r \in 1..Len(df.rows) : \A field \in ValidatedFields :
        (RowDone(r) /\ Rejected(r, field)) =>
            /\ Cardinality(InvalidAt(r, field)) = 1
            /\ \A k \in InvalidAt(r, field) :
                 loc.invalid_records[k].value = CellOf(r, field)
            /\ Cardinality(FixesAt(r, field)) = 1
            /\ \A k \in FixesAt(r, field) :
                 LET fix == loc.fixes[k]
                     manual == fix.processing_mode = "MANUAL" /\ fix.confidence = 0
                 IN /\ fix.original = CellOf(r, field)
                    /\ CASE field \in NameFields ->
                              IF IsDigitStr(StrStrip(CellOf(r, field))) THEN manual
                              ELSE \/ manual /\ fix.suggested = CellOf(r, field)
                                   \/ /\ fix.processing_mode = "OFFLINE"
                                      /\ fix.confidence = 70
                                      /\ fix.suggested # CellOf(r, field)
                         [] field = COL_id ->
                              IF \/ ClaimDigits(CellOf(r, field)) = <<>>
                                 \/ ClaimDigits(CellOf(r, field)) = CellOf(r, field)
                              THEN manual
                              ELSE /\ fix.processing_mode = "OFFLINE"
                                   /\ fix.confidence = 80
                                   /\ fix.suggested = ClaimDigits(CellOf(r, field))
                         [] field = ClaimEmailField ->
                              \/ fix.processing_mode = "OFFLINE" /\ fix.confidence = 85
                              \/ fix.processing_mode = "ONLINE" /\ fix.confidence = 0
                         [] OTHER -> manual

\* a rejected score (MANUAL), a rejected id with digits (OFFLINE), a numeric
\* name (MANUAL) and a name with a stray character (OFFLINE) in one row
C17_Witness ==
    /\ pc = "done"
    /\ Len(df.rows) >= 1
    /\ Rejected(1, COL_email_score) /\ Rejected(1, COL_id)
    /\ Rejected(1, COL_person_name) /\ Rejected(1, COL_middle_name)
    /\ \E k \in FixesAt(1, COL_email_score) : loc.fixes[k].processing_mode = "MANUAL"
    /\ \E k \in FixesAt(1, COL_id) : loc.fixes[k].processing_mode = "OFFLINE"
    /\ \E k \in FixesAt(1, COL_person_name) : loc.fixes[k].processing_mode = "MANUAL"
    /\ \E k \in FixesAt(1, COL_middle_name) : loc.fixes[k].processing_mode = "OFFLINE"

\* the rows the duplicate pass has read, and their keys
RowsRead == 1..Len(dd.flags)
KeyEmail(q) == get_email(df.columns, df.rows[q])
KeyPhone(q) == get_phone(df.columns, df.rows[q])
KeyPerson(q) == get_person(df.columns, df.rows[q])
KeyCompany(q) == get_company(df.columns, df.rows[q])

\* the pair a non-duplicate row leaves in the history, <<>> if none
PairLeft(q) ==
    IF KeyPerson(q) # <<>> /\ KeyCompany(q) # <<>>
    THEN << <<KeyPerson(q), KeyCompany(q)>> >>
    ELSE IF data_type = "company" /\ KeyCompany(q) # <<>>
         THEN << <<(<<>>), KeyCompany(q)>> >>
         ELSE <<>>

\* the pairs left by the non-duplicate rows among the first n, in row order
RECURSIVE PairsLeft(_)
PairsLeft(n) ==
    IF n = 0 THEN <<>>
    ELSE PairsLeft(n - 1) \o (IF dd.flags[n] THEN <<>> ELSE PairLeft(n))

\* row r repeats a key of an earlier row q as the mode's rules ask
MatchesRow(r, q) ==
    \/ KeyEmail(r) # <<>> /\ KeyEmail(r) = KeyEmail(q)
    \/ KeyPhone(r) # <<>> /\ KeyPhone(r) = KeyPhone(q)
    \/ /\ KeyCompany(r) # <<>> /\ KeyCompany(q) # <<>>
       /\ FracGE(TokenSortRatio(KeyCompany(r), KeyCompany(q)), 90)
       /\ \/ data_type = "company"
          \/ /\ KeyPerson(r) # <<>> /\ KeyPerson(q) # <<>>
             /\ FracGE(TokenSortRatio(KeyPerson(r), KeyPerson(q)), 90)

\* C18: after any prefix of the table the seen-email set is the set of
\* non-empty normalised emails of the rows of the prefix not flagged, the
\* seen-phone set that of their non-empty digit-only phones, and the history
\* the pairs those rows leave, in row order; a flagged row adds nothing, so
\* a row is flagged only on account of an earlier row that is not flagged.
C18_DedupStateInvariant ==
    pc # "start" =>
        /\ dd.email_seen
             = {KeyEmail(q) : q \in {p \in RowsRead : ~dd.flags[p]}} \ {<<>>}
        /\ dd.phone_seen
             = {KeyPhone(q) : q \in {p \in RowsRead : ~dd.flags[p]}} \ {<<>>}
        /\ dd.person_company_seen = PairsLeft(Len(dd.flags))
        /\ \A r \in RowsRead :
             dd.flags[r] => \E q \in 1..(r - 1) : ~dd.flags[q] /\ MatchesRow(r, q)

\* a second row flagged through its phone, whose new email and company a
\* third row repeats without being flagged
C18_Witness ==
    /\ pc = "dedup"
    /\ i = 3
    /\ dd.flags = <<FALSE, TRUE, FALSE>>
    /\ KeyPhone(2) = KeyPhone(1)
    /\ KeyEmail(2) # KeyEmail(1)
    /\ KeyEmail(3) = KeyEmail(2)
    /\ KeyCompany(3) = KeyCompany(2)
    /\ dd.person_company_seen
         = << <<KeyPerson(1), KeyCompany(1)>>, <<KeyPerson(3), KeyCompany(3)>> >>

\* the duplicate pass has read every row
PassDone == pc = "dedup" /\ i = Len(df.rows)

\* the flags of the table of the run in PERSON mode and in COMPANY mode
PersonFlags == IF data_type = "company" THEN FreshFlags(input, "people") ELSE dd.flags
CompanyFlags == IF data_type = "company" THEN dd.flags ELSE FreshFlags(input, "company")

\* C19 as stated: every row flagged in PERSON mode is flagged in COMPANY
\* mode for the same table.
C19_PersonFlagsWithinCompanyFlags ==
    PassDone => \A r \in 1..Len(df.rows) : PersonFlags[r] => CompanyFlags[r]

\* C19: a row flagged in PERSON mode is flagged in COMPANY mode for the same
\* table whenever the rows before it are flagged alike in the two modes; the
\* first row on which the modes differ is one COMPANY mode flags and PERSON
\* mode does not.
C19_CompanyModeAddsRule ==
    PassDone =>
        \A r \in 1..Len(df.rows) :
            (\A q \in 1..(r - 1) : PersonFlags[q] = CompanyFlags[q])
            => (PersonFlags[r] => CompanyFlags[r])

\* a second row both modes flag and a third only COMPANY mode flags
C19_Witness ==
    /\ PassDone
    /\ data_type = "company"
    /\ dd.flags = <<FALSE, TRUE, TRUE>>
    /\ PersonFlags = <<FALSE, TRUE, FALSE>>

\* C20: for a non-null email the checks reject, the email block counts one
\* invalid field, records one invalid_record and appends exactly one
\* FixEvent, built on the suggestion helper's repair: OFFLINE at 0.85 with
\* the normalised repair when the repair validates, else ONLINE at 0.0 with
\* the repair as it is and one manual review.
C20_InvalidEmailRepair ==
    \A r \in 1..Len(df.rows) :
        (RowDone(r) /\ HasEmailField /\ Rejected(r, ClaimEmailField)) =>
            LET e == EmailBlock(refs, df.columns, r - 1, df.rows[r])
                repair == _suggest_email_fix(PyStr(EmailCell(r)))
            IN /\ e.invalid_count = 1
               /\ e.standardized_count = 0
               /\ Len(e.invalid_records) = 1
               /\ Len(e.fixes) = 1
               /\ Cardinality(InvalidAt(r, ClaimEmailField)) = 1
               /\ Cardinality(FixesAt(r, ClaimEmailField)) = 1
               /\ \A k \in FixesAt(r, ClaimEmailField) : loc.fixes[k] = e.fixes[1]
               /\ e.fixes[1].original = EmailCell(r)
               /\ IF validate_email(repair).ok
                  THEN /\ e.fixes[1].processing_mode = "OFFLINE"
                       /\ e.fixes[1].confidence = 85
                       /\ e.fixes[1].suggested = validate_email(repair).normalized
                       /\ e.offline_fixes = 1
                       /\ e.online_fixes = 0
                       /\ e.manual_review = 0
                  ELSE /\ e.fixes[1].processing_mode = "ONLINE"
                       /\ e.fixes[1].confidence = 0
                       /\ e.fixes[1].suggested = repair
                       /\ e.offline_fixes = 0
                       /\ e.online_fixes = 1
                       /\ e.manual_review = 1

\* a one-row table whose phone is in order and whose email "a b" lacks its
\* "@" and is beyond repair: one invalid field, one ONLINE FixEvent, one
\* manual review
C20_Witness ==
    /\ pc = "done"
    /\ Len(df.rows) = 1
    /\ HasPhoneField /\ ~IsNa(PhoneCell(1))
    /\ Rejected(1, COL_email)
    /\ EmailCell(1) = <<"a"," ","b">>
    /\ result.report.invalid_fields = 1
    /\ result.report.manual_review = 1
    /\ Len(result.fixes) = 2
    /\ result.fixes[1].processing_mode = "ONLINE"
    /\ result.fixes[1].confidence = 0
    /\ result.fixes[1].note = "Needs verification: Invalid: missing @ symbol"

\* a name the validator rejects, in a name column of row r the loop has passed
RejectedName(r, field) ==
    /\ RowDone(r)
    /\ HasCol(df.columns, field)
    /\ ~IsNa(CellOf(r, field))
    /\ \E k \in 1..Len(CellOf(r, field)) :
          ~(IsAlpha(CellOf(r, field)[k]) \/ IsSpace(CellOf(r, field)[k])
            \/ CellOf(r, field)[k] \in {"-", "'"})

\* the text is digits only, blanks at its ends aside
PurelyNumeric(s) ==
    /\ StrStrip(s) # <<>>
    /\ \A k \in 1..Len(StrStrip(s)) : StrStrip(s)[k] \in Range(DigitChars)

\* no letter, hyphen or apostrophe is left once the rest is stripped
NothingLeft(s) == \A k \in 1..Len(s) : ~(IsAlpha(s[k]) \/ s[k] \in {"-", "'"})

\* C21: a name the validator rejects has exactly one FixEvent. An OFFLINE
\* one has confidence 0.70 and a suggestion that differs from the input, is
\* not empty, is not the bracketed marker and passes the name validator; a
\* purely numeric input, or one that cleaning leaves nothing of, has a
\* MANUAL one at 0.0.
C21_NameSuggestion ==
    \A r \in 1..Len(df.rows) : \A field \in NameFields :
        RejectedName(r, field) =>
            /\ ~_validate_name(PyStr(CellOf(r, field))).is_valid
            /\ Cardinality(FixesAt(r, field)) = 1
            /\ \A k \in FixesAt(r, field) :
                 LET fix == loc.fixes[k]
                 IN /\ fix.processing_mode \in {"OFFLINE", "MANUAL"}
                    /\ fix.processing_mode = "OFFLINE" =>
                         /\ fix.confidence = 70
                         /\ fix.suggested # CellOf(r, field)
                         /\ fix.suggested # <<>>
                         /\ fix.suggested[1] # "["
                         /\ CanonicalName(fix.suggested)
                         /\ _validate_name(fix.suggested).is_valid
                    /\ (PurelyNumeric(CellOf(r, field)) \/ NothingLeft(CellOf(r, field)))
                         => (fix.processing_mode = "MANUAL" /\ fix.confidence = 0)

\* "A.3" mended to "A" in one row, "4." left for review in the next
C21_Witness ==
    /\ pc = "done"
    /\ Len(df.rows) = 2
    /\ RejectedName(1, COL_last_name) /\ RejectedName(2, COL_last_name)
    /\ \E k \in FixesAt(1, COL_last_name) :
         /\ loc.fixes[k].processing_mode = "OFFLINE"
         /\ loc.fixes[k].suggested = <<"A">>
    /\ NothingLeft(CellOf(2, COL_last_name))
    /\ ~PurelyNumeric(CellOf(2, COL_last_name))
    /\ \E k \in FixesAt(2, COL_last_name) : loc.fixes[k].processing_mode = "MANUAL"

\* an id cell of row r the loop has passed
IdRow(r) == RowDone(r) /\ HasCol(df.columns, COL_id) /\ ~IsNa(CellOf(r, COL_id))

\* all digits and strictly positive
ClaimValidId(s) ==
    /\ s # <<>>
    /\ \A k \in 1..Len(s) : s[k] \in Range(DigitChars)
    /\ \E k \in 1..Len(s) : s[k] # "0"

\* C22: an id is valid only if it is an all-digit string of a strictly
\* positive integer; every OFFLINE id FixEvent (confidence 0.80) suggests a
\* value that passes the id validator, and an id with no such suggestion has
\* a MANUAL FixEvent at 0.0.
C22_OfflineIdSuggestionValid ==
    \A r \in 1..Len(df.rows) :
        IdRow(r) =>
            /\ _validate_id(PyStr(CellOf(r, COL_id))).is_valid
                 => ClaimValidId(CellOf(r, COL_id))
            /\ \A k \in FixesAt(r, COL_id) :
                 LET fix == loc.fixes[k]
                 IN /\ fix.processing_mode \in {"OFFLINE", "MANUAL"}
                    /\ fix.processing_mode = "OFFLINE" =>
                         /\ fix.confidence = 80
                         /\ ClaimValidId(fix.suggested)
                         /\ _validate_id(fix.suggested).is_valid
                    /\ fix.processing_mode = "MANUAL" => fix.confidence = 0
            /\ (~_validate_id(PyStr(CellOf(r, COL_id))).is_valid
                /\ ~ClaimValidId(DigitsOf(CellOf(r, COL_id))))
                 => \E k \in FixesAt(r, COL_id) : loc.fixes[k].processing_mode = "MANUAL"

\* a job title of row r the loop has passed, with a character that is not blank
JobRow(r) ==
    /\ RowDone(r)
    /\ HasCol(df.columns, COL_job_title) \/ HasCol(df.columns, COL_jobtitle)
    /\ ~IsNa(CellOf(r, ClaimJobField))
    /\ StrStrip(CellOf(r, ClaimJobField)) # <<>>

\* the title, trimmed and lowered, is a key of the dictionary
ExactHit(r) ==
    \E k \in 1..Len(refs.job_title_map) :
        refs.job_title_map[k][1] = StrLower(StrStrip(CellOf(r, ClaimJobField)))

\* the similarity of the title to the k-th key
KeyScore(r, k) ==
    TokenSortRatio(StrLower(StrStrip(CellOf(r, ClaimJobField))), refs.job_title_map[k][1])

\* the first key no other key is more similar to
ClosestKey(r) ==
    CHOOSE k \in 1..Len(refs.job_title_map) :
        /\ \A j \in 1..Len(refs.job_title_map) : ~FracGT(KeyScore(r, j), KeyScore(r, k))
        /\ \A j \in 1..(k - 1) : FracGT(KeyScore(r, k), KeyScore(r, j))

\* row r has one FixEvent for its job title and it is MANUAL at 0.0 with the note
JobManual(r, note) ==
    /\ Cardinality(FixesAt(r, ClaimJobField)) = 1
    /\ Cardinality(InvalidAt(r, ClaimJobField)) = 1
    /\ \A k \in FixesAt(r, ClaimJobField) :
         /\ loc.fixes[k].processing_mode = "MANUAL"
         /\ loc.fixes[k].confidence = 0
         /\ loc.fixes[k].note = note
         /\ loc.fixes[k].suggested = NoMatchFound

\* C23: a non-null job title with no exact dictionary hit is accepted with
\* the mapped value (OFFLINE, 0.8) when its best similarity to the keys is
\* at least 85, rejected with the closest-match diagnostic and no auto-fix
\* when it is in [70, 85), and rejected as "Unrecognized job title" below
\* 70; a rejection has one MANUAL FixEvent at 0.0. With an empty dictionary
\* every non-null job title has a MANUAL FixEvent and no OFFLINE one.
C23_JobTitleBands ==
    \A r \in 1..Len(df.rows) :
        JobRow(r) =>
            /\ (refs.job_title_map # <<>> /\ ~ExactHit(r)) =>
                 LET k == ClosestKey(r)
                 IN /\ FracGE(KeyScore(r, k), 85) =>
                         /\ InvalidAt(r, ClaimJobField) = {}
                         /\ Cardinality(FixesAt(r, ClaimJobField)) =
                              IF refs.job_title_map[k][2] = CellOf(r, ClaimJobField)
                              THEN 0 ELSE 1
                         /\ \A f \in FixesAt(r, ClaimJobField) :
                              /\ loc.fixes[f].processing_mode = "OFFLINE"
                              /\ loc.fixes[f].confidence = 80
                              /\ loc.fixes[f].suggested = refs.job_title_map[k][2]
                    /\ (FracGE(KeyScore(r, k), 70) /\ ~FracGE(KeyScore(r, k), 85)) =>
                         JobManual(r, "Unrecognized job title (closest: '"
                                      \o Str(refs.job_title_map[k][1]) \o "')")
                    /\ ~FracGE(KeyScore(r, k), 70) =>
                         JobManual(r, "Unrecognized job title")
            /\ refs.job_title_map = <<>> => JobManual(r, "Unrecognized job title")

\* with the dictionary loaded, "ceos" is accepted as "CEO" and "ceo x" is
\* rejected with "ceo" named as the closest key
C23_Witness ==
    /\ pc = "done"
    /\ refs = RefsLoaded
    /\ Len(df.rows) = 2
    /\ CellOf(1, COL_job_title) = <<"c","e","o","s">>
    /\ CellOf(2, COL_job_title) = <<"c","e","o"," ","x">>
    /\ JobRow(1) /\ JobRow(2) /\ ~ExactHit(1) /\ ~ExactHit(2)
    /\ \E f \in FixesAt(1, COL_job_title) :
         loc.fixes[f].processing_mode = "OFFLINE" /\ loc.fixes[f].suggested = <<"C","E","O">>
    /\ JobManual(2, "Unrecognized job title (closest: 'ceo')")

\* "cto" falls below 70 with the dictionary loaded, and with the dictionary
\* empty "ceos" is left for review
C23_WitnessUnrecognized ==
    /\ pc = "done"
    /\ Len(df.rows) = 1
    /\ \/ refs = RefsLoaded /\ CellOf(1, COL_job_title) = <<"c","t","o">>
       \/ refs = RefsEmpty /\ CellOf(1, COL_job_title) = <<"c","e","o","s">>
    /\ JobManual(1, "Unrecognized job title")

\* the cell of row r under the column, in the input once its header is
\* normalised and its blanks are nulls
NormalizedCell(r, name) ==
    RowGet(ReplaceBlanks(NormalizeColumns(input)).columns,
           ReplaceBlanks(NormalizeColumns(input)).rows[r], name, NaN)

\* the input has a domain column and a website column
BothDomainColumns ==
    /\ HasCol(NormalizeColumns(input).columns, COL_domain)
    /\ HasCol(NormalizeColumns(input).columns, COL_website)

\* C24: when the input has both a domain column and a website column, each
\* row's domain cell after processing is the hostname parsed from the domain
\* value if that parses, and else the hostname parsed from the website value.
C24_DomainPreferredOverWebsite ==
    (pc = "done" /\ BothDomainColumns) =>
        \A r \in 1..Len(result.cleaned_data.rows) :
            RowGet(result.cleaned_data.columns, result.cleaned_data.rows[r],
                   COL_domain, NaN) =
                IF ExtractDomain(NormalizedCell(r, COL_domain)) # PyNone
                THEN ExtractDomain(NormalizedCell(r, COL_domain))
                ELSE ExtractDomain(NormalizedCell(r, COL_website))

\* the input as line 47 leaves it, with the domain column lines 64-66 derive
NormalizedInput ==
    IF ~HasCol(NormalizeColumns(input).columns, COL_domain)
       /\ (HasCol(NormalizeColumns(input).columns, COL_website)
           \/ HasCol(NormalizeColumns(input).columns, COL_domain_url))
    THEN DeriveDomain(ReplaceBlanks(NormalizeColumns(input)))
    ELSE ReplaceBlanks(NormalizeColumns(input))

\* the cell of row r under the column is what the table t holds for it
SameCell(t, r, name) ==
    RowGet(t.columns, t.rows[r], name, <<"<absent>">>) =
        RowGet(NormalizedInput.columns, NormalizedInput.rows[r], name, <<"<other>">>)

\* C25: field remediation never writes to the table. While the row loop
\* runs, the table without the duplicate flag is the normalised input (with
\* the derived domain), and cleaned_data is that table cell for cell,
\* whatever FixEvents were recorded.
C25_FixesAreAdvisory ==
    /\ pc \in {"rows", "done"} =>
         DropColumn(df, COL_is_duplicate) = DropColumn(NormalizedInput, COL_is_duplicate)
    /\ pc = "done" =>
         result.cleaned_data =
             ToDictRecords(DropColumn(NormalizedInput, COL_is_duplicate))

\* a cell with an OFFLINE fix whose suggestion differs from it is returned
\* as it was read
C25_Witness ==
    /\ pc = "done"
    /\ \E k \in 1..Len(result.fixes) :
         LET fix == result.fixes[k]
         IN /\ fix.processing_mode = "OFFLINE"
            /\ fix.suggested # fix.original
            /\ HasCol(result.cleaned_data.columns, fix.field)
            /\ RowGet(result.cleaned_data.columns,
                      result.cleaned_data.rows[fix.row_index + 1], fix.field, NaN)
                 = fix.original
            /\ SameCell(result.cleaned_data, fix.row_index + 1, fix.field)

\* the categorical columns of the table
CategoricalFields == {f \in {COL_country, COL_industry} : HasCol(df.columns, f)}

\* the null categorical cells of the rows the loop has passed
NullCategoricalCells ==
    {<<r, f>> \in (1..Len(df.rows)) \X CategoricalFields :
        RowDone(r) /\ IsNa(CellOf(r, f))}

\* C26: for a null country or industry cell the standardizer returns the
\* value it was given (confidence 0.0, OFFLINE, "missing"), the pipeline
\* emits no FixEvent for the cell and counts it once in invalid_count.
C26_NullCategoricalIsInvalid ==
    pc \in {"rows", "done"} =>
        /\ \A c \in NullCategoricalCells :
             LET r == _standardize_value(PyStr(CellOf(c[1], c[2])),
                         IF c[2] = COL_country THEN refs.countries ELSE refs.industries,
                         c[2])
             IN /\ r.value = PyStr(CellOf(c[1], c[2]))
                /\ r.conf.num = 0 /\ r.mode = "OFFLINE" /\ r.note = "missing"
                /\ FixesAt(c[1], c[2]) = {}
        /\ loc.invalid_count >= Cardinality(NullCategoricalCells)

\* the FixEvents of the ledger with the mode
ModeCount(fixes, mode) ==
    Cardinality({k \in 1..Len(fixes) : fixes[k].processing_mode = mode})

\* C27: every FixEvent has mode OFFLINE, ONLINE or MANUAL; offline_fixes is
\* the number of OFFLINE FixEvents and online_fixes the number of ONLINE
\* ones, so the ledger's length is their sum plus the number of MANUAL
\* FixEvents; no row and field have two FixEvents.
C27_LedgerMatchesCounters ==
    /\ pc \in {"rows", "done"} =>
         /\ \A k \in 1..Len(loc.fixes) :
              loc.fixes[k].processing_mode \in {"OFFLINE", "ONLINE", "MANUAL"}
         /\ loc.offline_fixes = ModeCount(loc.fixes, "OFFLINE")
         /\ loc.online_fixes = ModeCount(loc.fixes, "ONLINE")
         /\ Len(loc.fixes) = loc.offline_fixes + loc.online_fixes
                               + ModeCount(loc.fixes, "MANUAL")
         /\ \A k, m \in 1..Len(loc.fixes) :
              (loc.fixes[k].row_index = loc.fixes[m].row_index
               /\ loc.fixes[k].field = loc.fixes[m].field) => k = m
    /\ pc = "done" =>
         /\ result.report.offline_fixes = ModeCount(result.fixes, "OFFLINE")
         /\ result.report.online_fixes = ModeCount(result.fixes, "ONLINE")
         /\ Len(result.fixes) = result.report.offline_fixes + result.report.online_fixes
                                  + ModeCount(result.fixes, "MANUAL")

\* a returned ledger with a fix of each mode
C27_Witness ==
    /\ pc = "done"
    /\ ModeCount(result.fixes, "OFFLINE") >= 1
    /\ ModeCount(result.fixes, "ONLINE") >= 1
    /\ ModeCount(result.fixes, "MANUAL") >= 1
    /\ result.report.offline_fixes + result.report.online_fixes < Len(result.fixes)

\* the endpoints that read the store
ReadEndpoints == {"/report", "/download/cleaned", "/download/excel"}

\* the five stored values are those of the result r
StoredFrom(r) ==
    /\ last_cleaned_df = <<PdDataFrame(r.cleaned_data)>>
    /\ last_report = <<r.report>>
    /\ last_missing_records = <<r.missing_records>>
    /\ last_invalid_records = <<r.invalid_records>>
    /\ last_duplicate_records = <<r.duplicate_records>>

\* C28: /report, /download/cleaned and /download/excel answer 404 until the
\* first upload is stored; from then on the stored cleaned table, report,
\* missing, invalid and duplicate lists are all those of the latest upload
\* that was stored, whatever uploads were rejected or failed since.
C28_StoreHoldsLatestUpload ==
    /\ latest = <<>> =>
         /\ last_cleaned_df = <<>> /\ last_report = <<>>
         /\ last_missing_records = <<>> /\ last_invalid_records = <<>>
         /\ last_duplicate_records = <<>>
         /\ response.endpoint \in ReadEndpoints => response.status = 404
    /\ latest # <<>> =>
         /\ StoredFrom(FreshResult(refs, latest[1].table, latest[1].data_type))
         /\ response.endpoint \in ReadEndpoints => response.status # 404
    /\ (pc = "idle" /\ response.endpoint = "/upload" /\ response.status \in {400, 500}) =>
         (latest = <<>> \/ latest = <<[table |-> input, data_type |-> data_type]>>)

\* an upload failed after a two-row upload was stored, and the store still
\* holds that upload's table and its invalid email
C28_Witness ==
    /\ pc = "idle"
    /\ response = [endpoint |-> "/upload", status |-> 500]
    /\ latest # <<>>
    /\ Len(latest[1].table.rows) = 2
    /\ Len(last_cleaned_df[1].rows) = 2
    /\ Len(last_invalid_records[1]) >= 1

\* a second upload is being processed while the store holds the first
C28_WitnessNextUpload ==
    /\ pc = "rows"
    /\ latest # <<>>
    /\ latest[1].table # input
    /\ last_report # <<>>

====
